---------------------------- MODULE Spec2Model ----------------------------
(* Model of the safety-check WebSocket gateway                            *)
(* (src/cdk/backend/safetycheckflow/lambda/websocket.py).                 *)
(*                                                                        *)
(* Text is a sequence of one-character strings, so that the response      *)
(* normalisers (clean_html_response, extract_html_content) are computed   *)
(* character by character as the Python code computes them.               *)
EXTENDS Integers, Sequences, FiniteSets, TLC

(* ---------------------------------------------------------------------- *)
(* Text helpers: the str methods and regular expressions the code uses.   *)
(* ---------------------------------------------------------------------- *)

BS == "\\"
NL == "\n"
CR == "\r"
TAB == "\t"
SP == " "

\* str.split() separators that can occur in the modelled alphabet
Whitespace == {SP, NL, CR, TAB}

\* s[i:] of Python for a 1-based i
Drop(s, i) == SubSeq(s, i, Len(s))

\* s.startswith(p) at 1-based position i
MatchAt(s, p, i) ==
    /\ i >= 1
    /\ i + Len(p) - 1 <= Len(s)
    /\ \A k \in 1..Len(p) : s[i + k - 1] = p[k]

\* s.find(p) + 1: the least 1-based index where p occurs, 0 when it does not
Find(s, p) ==
    LET hits == {i \in 1..Len(s) : MatchAt(s, p, i)}
    IN  IF hits = {} THEN 0 ELSE CHOOSE i \in hits : \A j \in hits : i <= j

\* the least index >= from where p occurs, 0 when there is none
FindFrom(s, p, from) ==
    LET hits == {i \in from..Len(s) : MatchAt(s, p, i)}
    IN  IF hits = {} THEN 0 ELSE CHOOSE i \in hits : \A j \in hits : i <= j

RECURSIVE RemoveAll(_, _)
\* s.replace(p, '') for a non-empty p: leftmost non-overlapping occurrences
RemoveAll(s, p) ==
    IF s = << >> THEN << >>
    ELSE IF MatchAt(s, p, 1) THEN RemoveAll(Drop(s, Len(p) + 1), p)
    ELSE << Head(s) >> \o RemoveAll(Tail(s), p)

RECURSIVE ReplaceChar(_, _, _)
\* s.replace(c, r) for a one-character c and a replacement text r
ReplaceChar(s, c, r) ==
    IF s = << >> THEN << >>
    ELSE (IF Head(s) = c THEN r ELSE << Head(s) >>) \o ReplaceChar(Tail(s), c, r)

RECURSIVE LStrip(_, _)
\* s.lstrip(chars)
LStrip(s, chars) ==
    IF s # << >> /\ Head(s) \in chars THEN LStrip(Tail(s), chars) ELSE s

RECURSIVE RStrip(_, _)
\* s.rstrip(chars)
RStrip(s, chars) ==
    IF s # << >> /\ s[Len(s)] \in chars
    THEN RStrip(SubSeq(s, 1, Len(s) - 1), chars) ELSE s

\* s.strip(chars)
Strip(s, chars) == RStrip(LStrip(s, chars), chars)

RECURSIVE SqueezeSpaces(_)
\* runs of whitespace inside an already stripped text become one space
SqueezeSpaces(s) ==
    IF s = << >> THEN << >>
    ELSE IF Head(s) \in Whitespace
         THEN << SP >> \o SqueezeSpaces(LStrip(s, Whitespace))
         ELSE << Head(s) >> \o SqueezeSpaces(Tail(s))

\* ' '.join(s.split())
JoinSplit(s) == SqueezeSpaces(Strip(s, Whitespace))

RECURSIVE Concat(_)
\* ''.join(list)
Concat(list) == IF list = << >> THEN << >> ELSE Head(list) \o Concat(Tail(list))

RECURSIVE JoinWith(_, _)
\* sep.join(list)
JoinWith(list, sep) ==
    IF list = << >> THEN << >>
    ELSE IF Len(list) = 1 THEN Head(list)
    ELSE Head(list) \o sep \o JoinWith(Tail(list), sep)

Q == "\""

T_div == << "<", "d", "i", "v" >>
T_html == << "<", "h", "t", "m", "l" >>
T_body == << "<", "b", "o", "d", "y" >>
T_section == << "<", "s", "e", "c", "t", "i", "o", "n" >>
T_h1 == << "<", "h", "1" >>
DivOpen == << "<", "d", "i", "v", ">" >>
DivClose == << "<", "/", "d", "i", "v", ">" >>
HtmlOpen == << "<", "h", "t", "m", "l", ">" >>
HtmlClose == << "<", "/", "h", "t", "m", "l", ">" >>
BodyOpen == << "<", "b", "o", "d", "y", ">" >>
BodyClose == << "<", "/", "b", "o", "d", "y", ">" >>

\* html_start_patterns of clean_html_response
html_start_patterns == {T_div, T_html, T_body, T_section, T_h1}

\* start_index of clean_html_response, 1-based; 0 when no pattern occurs
StartIndex(s) ==
    LET found == {Find(s, p) : p \in html_start_patterns} \ {0}
    IN  IF found = {} THEN 0 ELSE CHOOSE i \in found : \A j \in found : i <= j

\* re.sub(r'^[^<]*(?=<)', '', s)
DropLeadingNonTag(s) ==
    LET i == Find(s, << "<" >>) IN IF i = 0 THEN s ELSE Drop(s, i)

\* end of the match of re.search(r'</[^>]+>(?=[^<]*$)', s), 0 when no match
LastTagEnd(s) ==
    LET closeOf(i) == FindFrom(s, << ">" >>, i + 3)
        ok(i) == /\ MatchAt(s, << "<", "/" >>, i)
                 /\ i + 2 <= Len(s)
                 /\ s[i + 2] # ">"
                 /\ closeOf(i) # 0
                 /\ \A k \in (closeOf(i) + 1)..Len(s) : s[k] # "<"
        starts == {i \in 1..Len(s) : ok(i)}
    IN  IF starts = {} THEN 0
        ELSE closeOf(CHOOSE i \in starts : \A j \in starts : i <= j)

\* clean_html_response without its wrap branch
WrapDiv_never(s) == s

\* the wrap branch of clean_html_response
WrapDiv(s) ==
    IF s # << >> /\ Head(s) # "<" THEN DivOpen \o s \o DivClose ELSE s

\* clean_html_response(raw_response) for a str argument
clean_html_response(raw) ==
    IF raw = << >> THEN << >>
    ELSE
      LET t1 == RemoveAll(raw, << BS, "n" >>)
          t2 == ReplaceChar(t1, NL, << SP >>)
          t3 == ReplaceChar(t2, CR, << >>)
          t4 == ReplaceChar(t3, TAB, << SP >>)
          t5 == JoinSplit(t4)
          t6 == RStrip(t5, {"}", "]", ")"})
          t7 == Strip(t6, {"\"", "'"})
          si == StartIndex(t7)
          t8 == IF si > 1 THEN Drop(t7, si) ELSE t7
          t9 == DropLeadingNonTag(t8)
          t10 == WrapDiv(t9)
          e == LastTagEnd(t10)
          t11 == IF e # 0 THEN SubSeq(t10, 1, e) ELSE t10
      IN  Strip(t11, Whitespace)

\* the first match of <open>.*?<close> (re.DOTALL) in s, << >> when none
FirstBlock(s, open, close) ==
    LET i == Find(s, open)
        j == IF i = 0 THEN 0 ELSE FindFrom(s, close, i + Len(open))
    IN  IF j = 0 THEN << >> ELSE SubSeq(s, i, j + Len(close) - 1)

\* extract_html_content with the <body> pattern tried before the <html> one
extract_html_content_bodyFirst(text) ==
    IF FirstBlock(text, BodyOpen, BodyClose) # << >>
    THEN FirstBlock(text, BodyOpen, BodyClose)
    ELSE IF FirstBlock(text, HtmlOpen, HtmlClose) # << >>
    THEN FirstBlock(text, HtmlOpen, HtmlClose)
    ELSE text

\* extract_html_content(text)
extract_html_content(text) ==
    IF FirstBlock(text, HtmlOpen, HtmlClose) # << >>
    THEN FirstBlock(text, HtmlOpen, HtmlClose)
    ELSE IF FirstBlock(text, BodyOpen, BodyClose) # << >>
    THEN FirstBlock(text, BodyOpen, BodyClose)
    ELSE text

(* ---------------------------------------------------------------------- *)
(* Bounds and input sets.                                                 *)
(* ---------------------------------------------------------------------- *)

\* the clock takes the values 0..MaxTime
MaxTime == 1
\* the backend iterator yields at most MaxUnits response units
MaxUnits == 2

ConnIds == {"c1", "c2"}
\* the client whose connection lifecycle and messages are followed; the other
\* connection was opened and registered by an earlier invocation and stays open
Clients == {"c1"}
Reqs == {"r1", "r2"}
WorkOrderIds == {"WO1", "WO2"}

NoText == << "~" >>
NoTime == -1

\* chunk texts a backend unit can carry
ChunkA == DivOpen \o << "R" >>
ChunkB == DivClose
ChunkTexts == {ChunkA, ChunkB}

\* response units of the invoke_agent completion stream: a chunk, with or
\* without a trace event in the same unit
UnitKinds ==
    [chunk : ChunkTexts, trace : {FALSE}] \cup
    [chunk : {ChunkA}, trace : {TRUE}]

\* the token field of a message and what verification finds in it
TokenKinds == {"absent", "empty", "valid", "malformed", "unknown_kid", "bad_signature"}
\* the answer of the key-set endpoint
JwksKinds == {"ok", "fetch_failed", "no_keys"}
\* the agentFramework field of a message: absent (read as "BedrockAgent"),
\* "StrandsSDK", or a value that names neither variant
FrameworkKinds == {"absent", "StrandsSDK", "Other"}
\* the workOrderDetails field: absent, without work_order_id, or with one
WodKinds == {"absent", "no_id"} \cup WorkOrderIds
\* the body of a $default event: absent, the empty string, text that is not
\* JSON, JSON that is not an object (such as [1]), or a JSON object
BodyKinds == {"absent", "empty", "malformed", "nonobject", "object"}

\* 10 * 60 of handle_connect, in clock units
TTL_SECONDS == 600

\* texts of the error messages built by the strategies
ErrNotConfigured == << "B", "e", "d", "r", "o", "c", "k", " ", "a", "g", "e", "n", "t", " ", "I", "D", "s", " ", "n", "o", "t", " ", "c", "o", "n", "f", "i", "g", "u", "r", "e", "d" >>
ErrBedrock == << "E", "r", "r", "o", "r", " ", "i", "n", "v", "o", "k", "i", "n", "g", " ", "B", "e", "d", "r", "o", "c", "k", " ", "a", "g", "e", "n", "t" >>
ErrStrands == << "E", "r", "r", "o", "r", " ", "i", "n", "v", "o", "k", "i", "n", "g", " ", "S", "t", "r", "a", "n", "d", "s", " ", "a", "g", "e", "n", "t" >>
ErrStrandsStatus == << "S", "t", "r", "a", "n", "d", "s", " ", "a", "g", "e", "n", "t", " ", "e", "r", "r", "o", "r" >>

(* ---------------------------------------------------------------------- *)
(* State.                                                                 *)
(* ---------------------------------------------------------------------- *)

VARIABLES
    now,        \* the wall clock read by time.time() and datetime.now()
    connState,  \* the transport's view of each connection: new, open, closed
    registry,   \* ws_connection_table: connectionId -> ttl, 0 when no item
    store,      \* work_orders_table: work_order_id -> item
    cfg,        \* module-level configuration read from the environment
    req,        \* one lambda_handler invocation per element of Reqs
    norm,       \* a text under normalisation and its successive cleanings
    life,       \* per connection, the $connect and $disconnect events handled
    svc         \* the delegated service: per thread, its invocation and
                \* its thread_local_data

vars == << now, connState, registry, store, cfg, req, norm, life, svc >>

NoItem == [present |-> FALSE, safetyCheckResponse |-> NoText, safetyCheckPerformedAt |-> NoTime]
PlainItem == [present |-> TRUE, safetyCheckResponse |-> NoText, safetyCheckPerformedAt |-> NoTime]

NoEvent == [conn |-> "c1", domain |-> FALSE, body |-> "absent", heartbeat |-> FALSE,
            token |-> "absent", framework |-> "absent", wod |-> "absent"]

\* a JSON object as invoke_strands_agent looks at it: its content field
\* (absent, not a list, or a list of items) and its message field
NoObj == [content |-> "absent", items |-> << >>, message |-> NoText]
\* the body of a status-200 result: its response field (absent, a dict, a
\* str, or another value) and its own content and message fields
NoBody == [response |-> "absent", inner |-> NoObj, text |-> NoText, top |-> NoObj]
NoResponse == [kind |-> "none", body |-> NoBody]

IdleReq ==
    [pc |-> "idle", ev |-> NoEvent, status |-> 0, jwks |-> "none", verifyCalls |-> 0,
     invoked |-> << >>, backendCalls |-> 0, units |-> << >>, completion |-> << >>,
     strategy_result |-> "none", response |-> NoResponse, extracted |-> NoText, current_time |-> NoTime,
     pushes |-> << >>, faults |-> {}, updates |-> << >>, payload |-> NoText]

NoNorm == [op |-> "none", x |-> << >>, once |-> << >>, twice |-> << >>]
NoLife == [c \in ConnIds |-> << >>]

\* the threads of one execution environment of the delegated service
Threads == {"t1", "t2"}
NoSvcEvent == [inputText |-> FALSE, enableStreaming |-> FALSE, connectionId |-> "none",
               apiGatewayEndpoint |-> FALSE]
\* a thread of the delegated service: where its lambda_handler stands, the
\* event of the current invocation, the connection_id in its
\* thread_local_data ("none" for None or unset) now and when the current
\* invocation began, the send_streaming_update calls of the current
\* invocation and the frames they posted
IdleThread == [pc |-> "idle", ev |-> NoSvcEvent, connection_id |-> "none",
               stale |-> "none", calls |-> 0, sent |-> << >>]
NoSvc == [t \in Threads |-> IdleThread]

Events ==
    [conn : Clients, domain : BOOLEAN, body : BodyKinds, heartbeat : BOOLEAN,
     token : TokenKinds, framework : FrameworkKinds, wod : WodKinds]

\* fields that are read only from a parsed JSON object are fixed when the
\* body is not one
WellFormedEvent(e) ==
    e.body # "object" =>
        /\ e.heartbeat = FALSE /\ e.token = "absent"
        /\ e.framework = "absent" /\ e.wod = "absent"

\* the environment the deployment gives the handler: BEDROCK_AGENT_ID and
\* BEDROCK_AGENT_ALIAS_ID may be empty, WORK_ORDERS_TABLE_NAME is always set
Configs == [bedrockConfigured : BOOLEAN, tableConfigured : {TRUE}]

Init ==
    /\ now = 0
    /\ connState = [c \in ConnIds |-> IF c \in Clients THEN "new" ELSE "open"]
    /\ registry = [c \in ConnIds |-> IF c \in Clients THEN 0 ELSE TTL_SECONDS]
    /\ store = [w \in WorkOrderIds |-> IF w = "WO1" THEN PlainItem ELSE NoItem]
    /\ cfg \in Configs
    /\ req = [r \in Reqs |-> IdleReq]
    /\ norm = NoNorm
    /\ life = NoLife
    /\ svc = NoSvc

(* ---------------------------------------------------------------------- *)
(* Client Notifier.                                                       *)
(* ---------------------------------------------------------------------- *)

\* what post_to_connection can answer for a connection: GoneException only
\* for a connection the transport no longer has, any other error always;
\* for a gone connection the registry delete may itself fail
PushOutcomes(c) ==
    IF connState[c] = "open" THEN {"ok", "failed"}
    ELSE {"gone", "gone_delete_failed", "failed"}

\* a message dict handed to send_to_client: its type, the keys it carries,
\* the text under its payload key, and its remaining values
Message(type, keys, text, performedAt, fw, content) ==
    [type |-> type, keys |-> keys, text |-> text,
     safetyCheckPerformedAt |-> performedAt, agentFramework |-> fw,
     content |-> content]

\* the JSON document given to post_to_connection, with the connection it is
\* posted to and the number of response units the request had consumed when
\* it was posted
Envelope(message, connection_id, rq) ==
    [message |-> message, sender |-> connection_id, timestamp |-> "str",
     to |-> connection_id, seen |-> Len(rq.units)]

\* send_to_client without the delete of the stale registry entry
send_to_client_keepEntry(r, message, oc, rq) ==
    /\ req' = [req EXCEPT ![r] =
                 [rq EXCEPT !.pushes = Append(@, Envelope(message, rq.ev.conn, rq)),
                            !.faults = @ \cup ({oc} \ {"ok"})]]
    /\ UNCHANGED registry

\* send_to_client deleting the registry entry after any failed push
send_to_client_deleteOnAnyError(r, message, oc, rq) ==
    LET connection_id == rq.ev.conn IN
    /\ req' = [req EXCEPT ![r] =
                 [rq EXCEPT !.pushes = Append(@, Envelope(message, connection_id, rq)),
                            !.faults = @ \cup ({oc} \ {"ok"})]]
    /\ registry' = IF oc \in {"gone", "failed"}
                   THEN [registry EXCEPT ![connection_id] = 0]
                   ELSE registry

\* send_to_client ending the request with a 500 when the connection is gone
send_to_client_abortOnGone(r, message, oc, rq) ==
    LET connection_id == rq.ev.conn
        pushed == [rq EXCEPT !.pushes = Append(@, Envelope(message, connection_id, rq)),
                             !.faults = @ \cup ({oc} \ {"ok"})]
    IN
    /\ req' = [req EXCEPT ![r] = IF oc \in {"gone", "gone_delete_failed"}
                                 THEN [pushed EXCEPT !.pc = "done", !.status = 500]
                                 ELSE pushed]
    /\ registry' = IF oc = "gone"
                   THEN [registry EXCEPT ![connection_id] = 0]
                   ELSE registry

\* send_to_client clearing the whole registry when a connection is gone
send_to_client_sweep(r, message, oc, rq) ==
    LET connection_id == rq.ev.conn IN
    /\ req' = [req EXCEPT ![r] =
                 [rq EXCEPT !.pushes = Append(@, Envelope(message, connection_id, rq)),
                            !.faults = @ \cup ({oc} \ {"ok"})]]
    /\ registry' = IF oc = "gone"
                   THEN [c \in ConnIds |-> 0]
                   ELSE registry

\* send_to_client(api_gateway_management, connection_id, message), called by
\* request r whose record is rq after the caller's own assignments
send_to_client(r, message, oc, rq) ==
    LET connection_id == rq.ev.conn IN
    /\ req' = [req EXCEPT ![r] =
                 [rq EXCEPT !.pushes = Append(@, Envelope(message, connection_id, rq)),
                            !.faults = @ \cup ({oc} \ {"ok"})]]
    /\ registry' = IF oc = "gone"
                   THEN [registry EXCEPT ![connection_id] = 0]
                   ELSE registry

(* ---------------------------------------------------------------------- *)
(* Clock, transport and connection lifecycle.                             *)
(* ---------------------------------------------------------------------- *)

Tick ==
    /\ now < MaxTime
    /\ now' = now + 1
    /\ UNCHANGED << connState, registry, store, cfg, req, norm, life, svc >>

\* handle_connect writing an item that expires at once
handle_connect_put_noWindow(c, put_ok) ==
    /\ connState[c] = "new"
    /\ connState' = [connState EXCEPT ![c] = "open"]
    /\ registry' = IF put_ok THEN [registry EXCEPT ![c] = now] ELSE registry
    /\ UNCHANGED << now, store, cfg, req, norm, svc >>

\* handle_connect(c) for a given outcome of put_item
handle_connect_put(c, put_ok) ==
    /\ connState[c] = "new"
    /\ connState' = [connState EXCEPT ![c] = "open"]
    /\ registry' = IF put_ok
                   THEN [registry EXCEPT ![c] = now + TTL_SECONDS]
                   ELSE registry
    /\ UNCHANGED << now, store, cfg, req, norm, svc >>

\* $connect: the transport opens connection c and handle_connect(c) runs;
\* put_item may fail, which is logged and acknowledged all the same
handle_connect(c) ==
    \E put_ok \in BOOLEAN : handle_connect_put(c, put_ok) /\ UNCHANGED life

\* the client goes away: pushes to c answer GoneException from now on
TransportClose(c) ==
    /\ connState[c] = "open"
    /\ connState' = [connState EXCEPT ![c] = "closed"]
    /\ UNCHANGED << now, registry, store, cfg, req, norm, life, svc >>

\* handle_disconnect that leaves the item in the table
handle_disconnect_delete_keep(c, delete_ok) ==
    /\ connState[c] = "closed"
    /\ UNCHANGED << connState, registry >>
    /\ UNCHANGED << now, store, cfg, req, norm, svc >>

\* handle_disconnect(c) for a given outcome of delete_item
handle_disconnect_delete(c, delete_ok) ==
    /\ connState[c] = "closed"
    /\ UNCHANGED connState
    /\ registry' = IF delete_ok THEN [registry EXCEPT ![c] = 0] ELSE registry
    /\ UNCHANGED << now, store, cfg, req, norm, svc >>

\* $disconnect: handle_disconnect(c); delete_item may fail
handle_disconnect(c) ==
    \E delete_ok \in BOOLEAN : handle_disconnect_delete(c, delete_ok) /\ UNCHANGED life

(* ---------------------------------------------------------------------- *)
(* Dispatcher: lambda_handler on a $default event.                        *)
(* ---------------------------------------------------------------------- *)

Return(rq, code) == [rq EXCEPT !.pc = "done", !.status = code]

\* lambda_handler with the heartbeat test placed after the token test
EntryStatus_tokenFirst(e) ==
    IF e.body \in {"absent", "empty"} THEN 400
    ELSE IF e.body = "malformed" THEN 400
    ELSE IF e.body = "nonobject" THEN 500
    ELSE IF ~e.domain THEN 500
    ELSE IF e.token \in {"absent", "empty"} THEN 403
    ELSE IF e.heartbeat THEN 200
    ELSE 0

\* lambda_handler without the except branch for json.JSONDecodeError
EntryStatus_decodeErrorUncaught(e) ==
    IF e.body \in {"absent", "empty"} THEN 400
    ELSE IF e.body = "malformed" THEN 500
    ELSE IF e.body = "nonobject" THEN 500
    ELSE IF e.heartbeat THEN 200
    ELSE IF ~e.domain THEN 500
    ELSE IF e.token \in {"absent", "empty"} THEN 403
    ELSE 0

\* lambda_handler answering a missing token like a missing body
EntryStatus_tokenAsBody(e) ==
    IF e.body \in {"absent", "empty"} THEN 400
    ELSE IF e.body = "malformed" THEN 400
    ELSE IF e.body = "nonobject" THEN 500
    ELSE IF e.heartbeat THEN 200
    ELSE IF ~e.domain THEN 500
    ELSE IF e.token \in {"absent", "empty"} THEN 400
    ELSE 0

\* the position lambda_handler reaches on event e before it verifies the
\* token: the status it returns, or 0 when it goes on to verify_token;
\* message.get raises on a body that is not an object, which the outermost
\* except branch turns into a 500
EntryStatus(e) ==
    IF e.body \in {"absent", "empty"} THEN 400
    ELSE IF e.body = "malformed" THEN 400
    ELSE IF e.body = "nonobject" THEN 500
    ELSE IF e.heartbeat THEN 200
    ELSE IF ~e.domain THEN 500
    ELSE IF e.token \in {"absent", "empty"} THEN 403
    ELSE 0

\* lambda_handler, from the event to the call of verify_token
lambda_handler(r) ==
    /\ req[r].pc = "idle"
    /\ \E e \in Events :
         /\ WellFormedEvent(e)
         /\ connState[e.conn] = "open"
         /\ req' = [req EXCEPT ![r] =
                      IF EntryStatus(e) # 0
                      THEN Return([@ EXCEPT !.ev = e], EntryStatus(e))
                      ELSE [@ EXCEPT !.ev = e, !.pc = "verify"]]
    /\ UNCHANGED << now, connState, registry, store, cfg, norm, life, svc >>

\* verify_token without the signature check
TokenAccepted_unverified(token, jwks) ==
    jwks = "ok" /\ token \in {"valid", "bad_signature"}

\* whether verify_token returns claims for a token, given the key set
TokenAccepted(token, jwks) == jwks = "ok" /\ token = "valid"

\* a rejection that also removes the connection's registry entry
verify_token_dropConnection(r) ==
    /\ req[r].pc = "verify"
    /\ \E jwks \in JwksKinds :
         /\ req' = [req EXCEPT ![r] =
                      IF TokenAccepted(@.ev.token, jwks)
                      THEN [@ EXCEPT !.jwks = jwks, !.verifyCalls = @ + 1, !.pc = "handle"]
                      ELSE Return([@ EXCEPT !.jwks = jwks, !.verifyCalls = @ + 1], 403)]
         /\ registry' = IF TokenAccepted(req[r].ev.token, jwks) THEN registry
                        ELSE [registry EXCEPT ![req[r].ev.conn] = 0]
    /\ UNCHANGED << now, connState, store, cfg, norm, life, svc >>

\* verify_token and the try block around it in lambda_handler
verify_token(r) ==
    /\ req[r].pc = "verify"
    /\ \E jwks \in JwksKinds :
         req' = [req EXCEPT ![r] =
                   IF TokenAccepted(@.ev.token, jwks)
                   THEN [@ EXCEPT !.jwks = jwks, !.verifyCalls = @ + 1, !.pc = "handle"]
                   ELSE Return([@ EXCEPT !.jwks = jwks, !.verifyCalls = @ + 1], 403)]
    /\ UNCHANGED << now, connState, registry, store, cfg, norm, life, svc >>

\* requested_framework of handle_message
RequestedFramework(e) == IF e.framework = "absent" THEN "BedrockAgent" ELSE e.framework

\* a routing that sends every framework but BedrockAgent to the delegating variant
Route_otherToStrands(requested_framework) ==
    IF requested_framework = "BedrockAgent" THEN "bedrock" ELSE "strands"

\* the strategy handle_message routes a requested framework to
Route(requested_framework) ==
    IF requested_framework = "StrandsSDK" THEN "strands" ELSE "bedrock"

\* the members of event_body['workOrderDetails'], in key order
WorkOrderDetails(e) ==
    << << "description", << Q, "d", Q >> >> >>
    \o (IF e.wod \in WorkOrderIds
        THEN << << "work_order_id", << Q, e.wod, Q >> >> >>
        ELSE << >>)

\* json.dumps of an object given by its members: a text whose keys and
\* string values are kept as whole words
JsonObject(members) ==
    << "{" >>
    \o JoinWith([i \in 1..Len(members) |->
                   << Q, members[i][1], Q, ":", " " >> \o members[i][2]],
                << ",", " " >>)
    \o << "}" >>

\* the members of event_body, in key order
BodyMembers(e) ==
    (IF e.heartbeat THEN << << "messageType", << Q, "heartbeat", Q >> >> >> ELSE << >>)
    \o (IF e.token = "absent" THEN << >>
        ELSE << << "token", << Q >> \o (IF e.token = "empty" THEN << >> ELSE << e.token >>)
                            \o << Q >> >> >>)
    \o (IF e.framework = "absent" THEN << >>
        ELSE << << "agentFramework", << Q, e.framework, Q >> >> >>)
    \o (IF e.wod = "absent" THEN << >>
        ELSE << << "workOrderDetails", JsonObject(WorkOrderDetails(e)) >> >>)

\* a payload that is always the whole message body
Payload_wholeBody(e) == JsonObject(BodyMembers(e))

\* payload of handle_message: json.dumps(event_body), replaced by
\* json.dumps(workOrderDetails) when the key lookup does not raise
Payload(e) ==
    LET payload == JsonObject(BodyMembers(e))
    IN  IF e.wod # "absent" THEN JsonObject(WorkOrderDetails(e)) ELSE payload

\* handle_message, up to the call of the chosen strategy
handle_message_route(r) ==
    /\ req[r].pc = "handle"
    /\ LET variant == Route(RequestedFramework(req[r].ev)) IN
       req' = [req EXCEPT ![r].invoked = Append(@, variant),
                          ![r].payload = Payload(req[r].ev),
                          ![r].pc = IF variant = "strands" THEN "strands_init"
                                    ELSE "bedrock_start"]
    /\ UNCHANGED << now, connState, registry, store, cfg, norm, life, svc >>

(* ---------------------------------------------------------------------- *)
(* Streaming variant: invoke_bedrock_agent.                               *)
(* ---------------------------------------------------------------------- *)

\* the error frame of invoke_bedrock_agent sent with type trace
BedrockErrorFrame_asTrace(key, text) ==
    Message("trace", {"type", key, "agentFramework"}, text, NoTime, "BedrockAgent", 0)

BedrockErrorFrame(key, text) ==
    Message("error", {"type", key, "agentFramework"}, text, NoTime, "BedrockAgent", 0)

\* the trace frame sent for the unit at position i of the stream
BedrockTraceFrame(i) ==
    Message("trace", {"type", "content", "agentFramework"}, NoText, NoTime, "BedrockAgent", i)

\* an exception of the backend that ends the request with a 500 instead of
\* being returned as the result text
BedrockFailure_abort(rq) ==
    [rq EXCEPT !.completion = ErrBedrock, !.strategy_result = "failed",
               !.pc = "done", !.status = 500]

\* an except branch that sends its error frame and goes on reading the stream
BedrockFailure_resume(rq) ==
    [rq EXCEPT !.completion = ErrBedrock, !.strategy_result = "failed", !.pc = "stream"]

\* the value invoke_bedrock_agent returns when it catches an exception
BedrockFailure(rq) ==
    [rq EXCEPT !.completion = ErrBedrock, !.strategy_result = "failed", !.pc = "persist"]

\* invoke_bedrock_agent, from the identifier check to the invoke_agent call
invoke_bedrock_agent_call(r) ==
    /\ req[r].pc = "bedrock_start"
    /\ IF ~cfg.bedrockConfigured
       THEN \E oc \in PushOutcomes(req[r].ev.conn) :
               send_to_client(r, BedrockErrorFrame("message", ErrNotConfigured), oc,
                              [req[r] EXCEPT !.completion = ErrNotConfigured,
                                             !.strategy_result = "unconfigured",
                                             !.pc = "persist"])
       ELSE \/ /\ req' = [req EXCEPT ![r].backendCalls = @ + 1,
                                     ![r].completion = << >>,
                                     ![r].pc = "stream"]
               /\ UNCHANGED registry
            \/ \E oc \in PushOutcomes(req[r].ev.conn) :
                  send_to_client(r, BedrockErrorFrame("content", ErrBedrock), oc,
                                 BedrockFailure([req[r] EXCEPT !.backendCalls = @ + 1]))
    /\ UNCHANGED << now, connState, store, cfg, norm, life, svc >>

\* completion with the chunk of unit u put in front
Accumulate_prepend(completion, u) ==
    IF u.chunk # NoText THEN u.chunk \o completion ELSE completion

\* completion after the chunk of unit u was appended
Accumulate(completion, u) ==
    IF u.chunk # NoText THEN completion \o u.chunk ELSE completion

\* one iteration of the loop over response['completion']
invoke_bedrock_agent_unit(r) ==
    /\ req[r].pc = "stream"
    /\ Len(req[r].units) < MaxUnits
    /\ \E u \in UnitKinds :
         LET rq == [req[r] EXCEPT !.units = Append(@, u),
                                  !.completion = Accumulate(@, u)]
         IN  IF u.trace
             THEN \E oc \in PushOutcomes(req[r].ev.conn) :
                     send_to_client(r, BedrockTraceFrame(Len(rq.units)), oc, rq)
             ELSE /\ req' = [req EXCEPT ![r] = rq]
                  /\ UNCHANGED registry
    /\ UNCHANGED << now, connState, store, cfg, norm, life, svc >>

\* the iterator raises: the except branch of invoke_bedrock_agent
invoke_bedrock_agent_raise(r) ==
    /\ req[r].pc = "stream"
    /\ \E oc \in PushOutcomes(req[r].ev.conn) :
          send_to_client(r, BedrockErrorFrame("content", ErrBedrock), oc,
                         BedrockFailure(req[r]))
    /\ UNCHANGED << now, connState, store, cfg, norm, life, svc >>

\* invoke_bedrock_agent pushing a final frame of its own before it returns
invoke_bedrock_agent_return_pushFinal(r) ==
    /\ req[r].pc = "stream"
    /\ \E oc \in PushOutcomes(req[r].ev.conn) :
          send_to_client(r, Message("final", {"type", "safetyCheckResponse", "agentFramework"},
                                    req[r].completion, now, "BedrockAgent", 0),
                         oc, [req[r] EXCEPT !.strategy_result = "ok", !.pc = "persist"])
    /\ UNCHANGED << now, connState, store, cfg, norm, life, svc >>

\* the iterator is exhausted: return completion
invoke_bedrock_agent_return(r) ==
    /\ req[r].pc = "stream"
    /\ req' = [req EXCEPT ![r].strategy_result = "ok", ![r].pc = "persist"]
    /\ UNCHANGED << now, connState, registry, store, cfg, norm, life, svc >>

(* ---------------------------------------------------------------------- *)
(* Delegating variant: invoke_strands_agent.                              *)
(* ---------------------------------------------------------------------- *)

TextA == DivOpen \o << "a" >>
TextB == << "b" >> \o DivClose
TextX == << "x" >>

\* items of a content list: a dict with a str text, a dict with a text that
\* is not a str (7), a dict without text ({"k": 1}), a str, another value (5)
ItemA == [kind |-> "text", text |-> TextA]
ItemB == [kind |-> "text", text |-> TextB]
ItemNum == [kind |-> "text_nonstr", text |-> << "7" >>]
ItemNoText == [kind |-> "notext", text |-> NoText]
ItemStr == [kind |-> "str", text |-> TextX]
ItemOther == [kind |-> "other", text |-> << "5" >>]

ContentLists ==
    {<< ItemA, ItemB >>, << ItemB, ItemNoText >>, << ItemNum, ItemStr, ItemOther >>}

Objs ==
    [content : {"absent", "nonlist"}, items : {<< >>}, message : {NoText, TextX}] \cup
    [content : {"list"}, items : ContentLists, message : {TextX}]

BothObj == [content |-> "list", items |-> << ItemA >>, message |-> TextX]

Bodies ==
    [response : {"absent"}, inner : {NoObj}, text : {NoText}, top : Objs] \cup
    [response : {"dict"}, inner : Objs, text : {NoText}, top : {NoObj}] \cup
    [response : {"dict"}, inner : {NoObj, BothObj}, text : {NoText}, top : {BothObj}] \cup
    [response : {"str"}, inner : {NoObj}, text : {TextA}, top : {NoObj}] \cup
    [response : {"other"}, inner : {NoObj}, text : {<< "5" >>}, top : {NoObj}]

\* what lambda_client.invoke gives back: an exception (also for a payload
\* that cannot be parsed), a payload with an error key, a status other than
\* 200, or status 200 with a body
StrandsResponses ==
    [kind : {"raise", "error_key", "status_other"}, body : {NoBody}] \cup
    [kind : {"ok"}, body : Bodies]

\* str(content_item) of a dict without text: the repr of {"k": 1}
ReprNoText == << "{", "'", "k", "'", ":", " ", "1", "}" >>

JsonStr(t) == << Q >> \o t \o << Q >>
JsonKey(k) == JsonStr(k) \o << ":", " " >>
K_text == << "t", "e", "x", "t" >>
K_content == << "c", "o", "n", "t", "e", "n", "t" >>
K_message == << "m", "e", "s", "s", "a", "g", "e" >>
K_response == << "r", "e", "s", "p", "o", "n", "s", "e" >>

\* json.dumps of one item of a content list
JsonItem(item) ==
    IF item.kind = "text" THEN << "{" >> \o JsonKey(K_text) \o JsonStr(item.text) \o << "}" >>
    ELSE IF item.kind = "text_nonstr" THEN << "{" >> \o JsonKey(K_text) \o item.text \o << "}" >>
    ELSE IF item.kind = "notext" THEN << "{" >> \o JsonKey(<< "k" >>) \o << "1", "}" >>
    ELSE IF item.kind = "str" THEN JsonStr(item.text)
    ELSE item.text

\* the "key": value members of an object, in key order
JsonMembers(o) ==
    (IF o.content = "nonlist" THEN << JsonKey(K_content) \o << "1" >> >>
     ELSE IF o.content = "list"
     THEN << JsonKey(K_content) \o << "[" >>
             \o JoinWith([i \in 1..Len(o.items) |-> JsonItem(o.items[i])], << ",", " " >>)
             \o << "]" >> >>
     ELSE << >>)
    \o (IF o.message # NoText THEN << JsonKey(K_message) \o JsonStr(o.message) >> ELSE << >>)

\* json.dumps(o) for a dict o
JsonDumps(o) == << "{" >> \o JoinWith(JsonMembers(o), << ",", " " >>) \o << "}" >>

\* json.dumps(body) for a whole result body
JsonDumpsBody(b) ==
    LET response == IF b.response = "dict" THEN << JsonKey(K_response) \o JsonDumps(b.inner) >>
                    ELSE IF b.response = "str" THEN << JsonKey(K_response) \o JsonStr(b.text) >>
                    ELSE IF b.response = "other" THEN << JsonKey(K_response) \o b.text >>
                    ELSE << >>
    IN  << "{" >> \o JoinWith(response \o JsonMembers(b.top), << ",", " " >>) \o << "}" >>

\* what one item of body['response']['content'] adds to completion
NestedItemText(item) ==
    IF item.kind = "notext" THEN ReprNoText ELSE item.text

\* what one item of body['content'] adds to completion
TopItemText(item) ==
    IF item.kind = "notext" THEN << >> ELSE item.text

RECURSIVE ConcatItems(_, _)
ConcatItems(items, nested) ==
    IF items = << >> THEN << >>
    ELSE (IF nested THEN NestedItemText(Head(items)) ELSE TopItemText(Head(items)))
         \o ConcatItems(Tail(items), nested)

\* completion for a dict with the message field tried first
ExtractFromObj_messageFirst(o, nested) ==
    IF o.message # NoText THEN o.message
    ELSE IF o.content = "list" THEN ConcatItems(o.items, nested)
    ELSE JsonDumps(o)

\* completion for a dict: content list, else message, else json.dumps
ExtractFromObj(o, nested) ==
    IF o.content = "list" THEN ConcatItems(o.items, nested)
    ELSE IF o.message # NoText THEN o.message
    ELSE JsonDumps(o)

\* completion as invoke_strands_agent extracts it from a status-200 body
ExtractCompletion(body) ==
    IF body.response = "dict" THEN ExtractFromObj(body.inner, TRUE)
    ELSE IF body.response \in {"str", "other"} THEN body.text
    ELSE ExtractFromObj(body.top, FALSE)

StrandsInitFrame ==
    Message("trace", {"type", "content", "agentFramework"}, NoText, NoTime, "StrandsSDK", 0)

StrandsFinalFrame(cleaned_completion) ==
    Message("final", {"type", "requestId", "status", "safetyCheckResponse",
                      "safetyCheckPerformedAt", "agentFramework"},
            cleaned_completion, now, "StrandsSDK", 0)

StrandsErrorFrame(error_msg) ==
    Message("error", {"type", "safetyCheckResponse", "agentFramework"},
            error_msg, NoTime, "StrandsSDK", 0)

\* invoke_strands_agent: the initial processing message
invoke_strands_agent_init(r) ==
    /\ req[r].pc = "strands_init"
    /\ \E oc \in PushOutcomes(req[r].ev.conn) :
          send_to_client(r, StrandsInitFrame, oc, [req[r] EXCEPT !.pc = "strands_invoke"])
    /\ UNCHANGED << now, connState, store, cfg, norm, life, svc >>

\* invoke_strands_agent: the synchronous lambda_client.invoke
invoke_strands_agent_call(r) ==
    /\ req[r].pc = "strands_invoke"
    /\ \E resp \in StrandsResponses :
          req' = [req EXCEPT ![r].backendCalls = @ + 1,
                             ![r].response = resp,
                             ![r].pc = "strands_parse"]
    /\ UNCHANGED << now, connState, registry, store, cfg, norm, life, svc >>

\* invoke_strands_agent returning the extracted text as it is
StrandsResult_raw(resp) ==
    IF resp.kind = "ok" THEN ExtractCompletion(resp.body)
    ELSE IF resp.kind = "status_other" THEN ErrStrandsStatus
    ELSE ErrStrands

\* the text invoke_strands_agent returns for a response
StrandsResult(resp) ==
    IF resp.kind = "ok" THEN clean_html_response(ExtractCompletion(resp.body))
    ELSE IF resp.kind = "status_other" THEN ErrStrandsStatus
    ELSE ErrStrands

\* the frame invoke_strands_agent sends for a response
StrandsTerminalFrame(resp) ==
    IF resp.kind = "ok" THEN StrandsFinalFrame(StrandsResult(resp))
    ELSE StrandsErrorFrame(StrandsResult(resp))

\* invoke_strands_agent: parsing of the response, its terminal frame and
\* its return value
invoke_strands_agent_finish(r) ==
    /\ req[r].pc = "strands_parse"
    /\ LET resp == req[r].response
           rq == [req[r] EXCEPT !.extracted = IF resp.kind = "ok"
                                              THEN ExtractCompletion(resp.body)
                                              ELSE NoText,
                                !.completion = StrandsResult(resp),
                                !.strategy_result = IF resp.kind = "ok" THEN "ok"
                                                    ELSE "failed",
                                !.pc = "persist"]
       IN  \E oc \in PushOutcomes(req[r].ev.conn) :
              send_to_client(r, StrandsTerminalFrame(resp), oc, rq)
    /\ UNCHANGED << now, connState, store, cfg, norm, life, svc >>

(* ---------------------------------------------------------------------- *)
(* Dispatcher: persistence and the terminal frame of handle_message.      *)
(* ---------------------------------------------------------------------- *)

\* the text written to the work order
ProcessedResponse(completion) == extract_html_content(completion)

\* the persistence block of handle_message attempting a failed update again
handle_message_persist_retry(r) ==
    /\ req[r].pc = "persist"
    /\ LET w == req[r].ev.wod
           rq == [req[r] EXCEPT !.current_time = now, !.pc = "final"]
       IN  IF cfg.tableConfigured /\ w \in WorkOrderIds
           THEN \E update_ok \in BOOLEAN :
                  LET u == [key |-> w,
                            safetyCheckResponse |-> ProcessedResponse(rq.completion),
                            safetyCheckPerformedAt |-> rq.current_time,
                            ok |-> update_ok]
                  IN  /\ req' = [req EXCEPT ![r] =
                                   [rq EXCEPT !.updates = IF update_ok THEN Append(@, u)
                                                          ELSE Append(Append(@, u), u)]]
                      /\ store' = IF update_ok
                                  THEN [store EXCEPT ![w] =
                                          [present |-> TRUE,
                                           safetyCheckResponse |-> u.safetyCheckResponse,
                                           safetyCheckPerformedAt |-> u.safetyCheckPerformedAt]]
                                  ELSE store
           ELSE /\ req' = [req EXCEPT ![r] = rq]
                /\ UNCHANGED store
    /\ UNCHANGED << now, connState, registry, cfg, norm, life, svc >>

\* a persistence step that keeps an error text out of the work order
handle_message_persist_skipErrors(r) ==
    /\ req[r].pc = "persist"
    /\ LET w == req[r].ev.wod
           rq == [req[r] EXCEPT !.current_time = now, !.pc = "final"]
       IN  IF cfg.tableConfigured /\ w \in WorkOrderIds /\ rq.strategy_result = "ok"
           THEN \E update_ok \in BOOLEAN :
                  LET u == [key |-> w,
                            safetyCheckResponse |-> ProcessedResponse(rq.completion),
                            safetyCheckPerformedAt |-> rq.current_time,
                            ok |-> update_ok]
                  IN  /\ req' = [req EXCEPT ![r] = [rq EXCEPT !.updates = Append(@, u)]]
                      /\ store' = IF update_ok
                                  THEN [store EXCEPT ![w] =
                                          [present |-> TRUE,
                                           safetyCheckResponse |-> u.safetyCheckResponse,
                                           safetyCheckPerformedAt |-> u.safetyCheckPerformedAt]]
                                  ELSE store
           ELSE /\ req' = [req EXCEPT ![r] = rq]
                /\ UNCHANGED store
    /\ UNCHANGED << now, connState, registry, cfg, norm, life, svc >>

\* the persistence block of handle_message; update_item may fail and
\* creates the item when there is none
handle_message_persist(r) ==
    /\ req[r].pc = "persist"
    /\ LET w == req[r].ev.wod
           rq == [req[r] EXCEPT !.current_time = now, !.pc = "final"]
       IN  IF cfg.tableConfigured /\ w \in WorkOrderIds
           THEN \E update_ok \in BOOLEAN :
                  LET u == [key |-> w,
                            safetyCheckResponse |-> ProcessedResponse(rq.completion),
                            safetyCheckPerformedAt |-> rq.current_time,
                            ok |-> update_ok]
                  IN  /\ req' = [req EXCEPT ![r] = [rq EXCEPT !.updates = Append(@, u)]]
                      /\ store' = IF update_ok
                                  THEN [store EXCEPT ![w] =
                                          [present |-> TRUE,
                                           safetyCheckResponse |-> u.safetyCheckResponse,
                                           safetyCheckPerformedAt |-> u.safetyCheckPerformedAt]]
                                  ELSE store
           ELSE /\ req' = [req EXCEPT ![r] = rq]
                /\ UNCHANGED store
    /\ UNCHANGED << now, connState, registry, cfg, norm, life, svc >>

FinalKeys == {"type", "requestId", "status", "safetyCheckResponse",
              "safetyCheckPerformedAt", "agentFramework"}

\* the final frame stamped with a new clock reading
DispatcherFinalFrame_freshTime(rq) ==
    Message("final", FinalKeys, rq.completion, now, RequestedFramework(rq.ev), 0)

\* the final frame built by handle_message
DispatcherFinalFrame(rq) ==
    Message("final", FinalKeys, rq.completion, rq.current_time,
            RequestedFramework(rq.ev), 0)

\* a failed push of the terminal frame raised out of handle_message into the
\* except branch around verify_token
handle_message_final_propagate(r) ==
    /\ req[r].pc = "final"
    /\ \E oc \in PushOutcomes(req[r].ev.conn) :
          send_to_client(r, DispatcherFinalFrame(req[r]), oc,
                         Return(req[r], IF oc = "ok" THEN 200 ELSE 403))
    /\ UNCHANGED << now, connState, store, cfg, norm, life, svc >>

\* the terminal frame of handle_message and its return value
handle_message_final(r) ==
    /\ req[r].pc = "final"
    /\ \E oc \in PushOutcomes(req[r].ev.conn) :
          send_to_client(r, DispatcherFinalFrame(req[r]), oc, Return(req[r], 200))
    /\ UNCHANGED << now, connState, store, cfg, norm, life, svc >>

(* ---------------------------------------------------------------------- *)
(* Response Normalizer applied to bounded inputs.                         *)
(* ---------------------------------------------------------------------- *)

\* inputs of the cleaner have at most MaxCleanLen characters
MaxCleanLen == 3
CleanAlphabet == {"<", ">", "/", BS, "n", NL, CR, TAB, SP, "}", Q, "a"}
CleanInputs == UNION {[1..k -> CleanAlphabet] : k \in 0..MaxCleanLen}

InitClean ==
    /\ now = 0
    /\ connState = [c \in ConnIds |-> IF c \in Clients THEN "new" ELSE "open"]
    /\ registry = [c \in ConnIds |-> IF c \in Clients THEN 0 ELSE TTL_SECONDS]
    /\ store = [w \in WorkOrderIds |-> IF w = "WO1" THEN PlainItem ELSE NoItem]
    /\ cfg = [bedrockConfigured |-> TRUE, tableConfigured |-> TRUE]
    /\ req = [r \in Reqs |-> IdleReq]
    /\ \E x \in CleanInputs : norm = [NoNorm EXCEPT !.op = "input", !.x = x]
    /\ life = NoLife
    /\ svc = NoSvc

\* y = clean_html_response(x)
CleanOnce ==
    /\ norm.op = "input"
    /\ norm' = [norm EXCEPT !.op = "cleaned", !.once = clean_html_response(norm.x)]
    /\ UNCHANGED << now, connState, registry, store, cfg, req, life, svc >>

\* z = clean_html_response(y)
CleanTwice ==
    /\ norm.op = "cleaned"
    /\ norm' = [norm EXCEPT !.op = "recleaned", !.twice = clean_html_response(norm.once)]
    /\ UNCHANGED << now, connState, registry, store, cfg, req, life, svc >>

NextClean == CleanOnce \/ CleanTwice

SpecClean == InitClean /\ [][NextClean]_vars

(* ---------------------------------------------------------------------- *)
(* HTML extractor applied to bounded inputs.                              *)
(* ---------------------------------------------------------------------- *)

\* inputs of the extractor are made of at most MaxExtractTokens pieces
MaxExtractTokens == 4
ExtractTokens == {HtmlOpen, HtmlClose, BodyOpen, BodyClose, << "x" >>, << NL >>}
ExtractInputs ==
    {Concat(ts) : ts \in UNION {[1..k -> ExtractTokens] : k \in 0..MaxExtractTokens}}

InitExtract ==
    /\ now = 0
    /\ connState = [c \in ConnIds |-> IF c \in Clients THEN "new" ELSE "open"]
    /\ registry = [c \in ConnIds |-> IF c \in Clients THEN 0 ELSE TTL_SECONDS]
    /\ store = [w \in WorkOrderIds |-> IF w = "WO1" THEN PlainItem ELSE NoItem]
    /\ cfg = [bedrockConfigured |-> TRUE, tableConfigured |-> TRUE]
    /\ req = [r \in Reqs |-> IdleReq]
    /\ \E t \in ExtractInputs : norm = [NoNorm EXCEPT !.op = "text", !.x = t]
    /\ life = NoLife
    /\ svc = NoSvc

\* y = extract_html_content(t)
ExtractOnce ==
    /\ norm.op = "text"
    /\ norm' = [norm EXCEPT !.op = "extracted", !.once = extract_html_content(norm.x)]
    /\ UNCHANGED << now, connState, registry, store, cfg, req, life, svc >>

NextExtract == ExtractOnce

SpecExtract == InitExtract /\ [][NextExtract]_vars

(* ---------------------------------------------------------------------- *)
(* Connection lifecycle: the $connect and $disconnect routes.             *)
(* ---------------------------------------------------------------------- *)

\* at most MaxEvents lifecycle events are handled per connection
MaxEvents == 3

\* handle_connect and handle_disconnect turning a table error into a 500
LifecycleStatus_propagate(ok) == IF ok THEN 200 ELSE 500

\* the statusCode handle_connect and handle_disconnect return: from the try
\* block when the table operation succeeded, from the except block otherwise
LifecycleStatus(ok) == IF ok THEN 200 ELSE 200

\* one handled lifecycle event: the route, whether the table operation
\* succeeded, the statusCode returned, the clock when it ran and the
\* connection's registry entry when it returned
Handled(route, ok, c) ==
    [route |-> route, ok |-> ok, status |-> LifecycleStatus(ok),
     at |-> now, after |-> registry'[c]]

InitConn ==
    /\ now = 0
    /\ connState = [c \in ConnIds |-> "new"]
    /\ registry = [c \in ConnIds |-> 0]
    /\ store = [w \in WorkOrderIds |-> IF w = "WO1" THEN PlainItem ELSE NoItem]
    /\ cfg = [bedrockConfigured |-> TRUE, tableConfigured |-> TRUE]
    /\ req = [r \in Reqs |-> IdleReq]
    /\ norm = NoNorm
    /\ life = NoLife
    /\ svc = NoSvc

\* lambda_handler on a $connect event for c
lambda_handler_connect(c) ==
    \E put_ok \in BOOLEAN :
        /\ handle_connect_put(c, put_ok)
        /\ life' = [life EXCEPT ![c] = Append(@, Handled("$connect", put_ok, c))]

\* lambda_handler on a $disconnect event for c
lambda_handler_disconnect(c) ==
    /\ Len(life[c]) < MaxEvents
    /\ \E delete_ok \in BOOLEAN :
          /\ handle_disconnect_delete(c, delete_ok)
          /\ life' = [life EXCEPT ![c] = Append(@, Handled("$disconnect", delete_ok, c))]

NextConn ==
    \/ Tick
    \/ \E c \in ConnIds : lambda_handler_connect(c)
    \/ \E c \in ConnIds : TransportClose(c)
    \/ \E c \in ConnIds : lambda_handler_disconnect(c)

SpecConn == InitConn /\ [][NextConn]_vars

(* ---------------------------------------------------------------------- *)
(* Delegated service: lambda_handler and send_streaming_update of the     *)
(* supervisor agent (src/cdk/strands_agents/supervisor_agent/index.py).   *)
(* ---------------------------------------------------------------------- *)

\* the tools of one invocation call send_streaming_update at most
\* MaxUpdates times
MaxUpdates == 1

\* the fields lambda_handler reads from its event
SvcEvents ==
    [inputText : BOOLEAN, enableStreaming : BOOLEAN, connectionId : {"none"} \cup ConnIds,
     apiGatewayEndpoint : BOOLEAN]

\* the set-up block without the else branch that clears thread_local_data
StreamingSetup_noClear(e, client_ok, old) ==
    IF e.enableStreaming /\ e.connectionId # "none" /\ e.apiGatewayEndpoint
    THEN IF client_ok THEN e.connectionId ELSE "none"
    ELSE old

\* thread_local_data.connection_id after the set-up block of lambda_handler,
\* old being its value before; boto3.client may raise
StreamingSetup(e, client_ok, old) ==
    IF e.enableStreaming /\ e.connectionId # "none" /\ e.apiGatewayEndpoint
    THEN IF client_ok THEN e.connectionId ELSE "none"
    ELSE "none"

InitSvc ==
    /\ now = 0
    /\ connState = [c \in ConnIds |-> "open"]
    /\ registry = [c \in ConnIds |-> TTL_SECONDS]
    /\ store = [w \in WorkOrderIds |-> IF w = "WO1" THEN PlainItem ELSE NoItem]
    /\ cfg = [bedrockConfigured |-> TRUE, tableConfigured |-> TRUE]
    /\ req = [r \in Reqs |-> IdleReq]
    /\ norm = NoNorm
    /\ life = NoLife
    /\ svc = NoSvc

\* lambda_handler of the service on thread t, from the event to the set-up
\* of the streaming context; without input text it returns 400 at once. A
\* thread runs its invocations one after the other.
supervisor_lambda_handler(t) ==
    /\ svc[t].pc = "idle"
    /\ \E e \in SvcEvents, client_ok \in BOOLEAN :
          svc' = [svc EXCEPT ![t] =
                    IF ~e.inputText
                    THEN @
                    ELSE [@ EXCEPT !.pc = "initial_trace", !.ev = e,
                                   !.stale = svc[t].connection_id,
                                   !.connection_id = StreamingSetup(e, client_ok, @)]]
    /\ UNCHANGED << now, connState, registry, store, cfg, req, norm, life >>

\* the Data send_streaming_update posts
StreamingFrame(connection_id) ==
    [to |-> connection_id, type |-> "trace", agentFramework |-> "StrandsSDK"]

\* send_streaming_update called on thread t: by lambda_handler for the
\* initial trace, then by the tools of the agent
send_streaming_update(t) ==
    /\ svc[t].pc \in {"initial_trace", "agent"}
    /\ svc[t].pc = "agent" => svc[t].calls <= MaxUpdates
    /\ LET connection_id == svc[t].connection_id IN
       svc' = [svc EXCEPT ![t].pc = "agent",
                          ![t].calls = @ + 1,
                          ![t].sent = IF connection_id # "none"
                                      THEN Append(@, StreamingFrame(connection_id))
                                      ELSE @]
    /\ UNCHANGED << now, connState, registry, store, cfg, req, norm, life >>

\* the agent returns or raises and lambda_handler returns; the thread keeps
\* its thread_local_data for the next invocation
supervisor_lambda_handler_return(t) ==
    /\ svc[t].pc = "agent"
    /\ svc' = [svc EXCEPT ![t] = [IdleThread EXCEPT !.connection_id = svc[t].connection_id]]
    /\ UNCHANGED << now, connState, registry, store, cfg, req, norm, life >>

NextSvc ==
    \/ \E t \in Threads : supervisor_lambda_handler(t)
    \/ \E t \in Threads : send_streaming_update(t)
    \/ \E t \in Threads : supervisor_lambda_handler_return(t)

SpecSvc == InitSvc /\ [][NextSvc]_vars

(* ---------------------------------------------------------------------- *)
(* Two invocations of handle_message racing on the work-order store.      *)
(* ---------------------------------------------------------------------- *)

\* a verified data message on connection c1 for work order w, without
\* agentFramework
VerifiedEvent(w) ==
    [conn |-> "c1", domain |-> TRUE, body |-> "object", heartbeat |-> FALSE,
     token |-> "valid", framework |-> "absent", wod |-> w]

RECURSIVE AccumulateAll(_)
\* completion after the loop of invoke_bedrock_agent went over units
AccumulateAll(units) ==
    IF units = << >> THEN << >>
    ELSE Accumulate(AccumulateAll(SubSeq(units, 1, Len(units) - 1)), units[Len(units)])

\* the invocation for event e when invoke_bedrock_agent has returned the
\* text of units, none of which carried a trace
Streamed(e, units) ==
    [IdleReq EXCEPT !.pc = "persist", !.ev = e, !.jwks = "ok", !.verifyCalls = 1,
                    !.invoked = << Route(RequestedFramework(e)) >>, !.payload = Payload(e),
                    !.backendCalls = 1,
                    !.units = units, !.completion = AccumulateAll(units),
                    !.strategy_result = "ok"]

\* the streams the two racing invocations have consumed
RaceStreams ==
    {<< [chunk |-> ChunkA, trace |-> FALSE] >>,
     << [chunk |-> ChunkA, trace |-> FALSE], [chunk |-> ChunkB, trace |-> FALSE] >>}

\* both invocations run in their own execution environment on messages of
\* connection c1; the first is for WO1, the second for any work order
InitRace ==
    /\ now = 0
    /\ connState = [c \in ConnIds |-> "open"]
    /\ registry = [c \in ConnIds |-> TTL_SECONDS]
    /\ store = [w \in WorkOrderIds |-> IF w = "WO1" THEN PlainItem ELSE NoItem]
    /\ cfg = [bedrockConfigured |-> TRUE, tableConfigured |-> TRUE]
    /\ \E s1 \in RaceStreams, s2 \in RaceStreams, w2 \in WorkOrderIds :
          req = [r \in Reqs |-> IF r = "r1" THEN Streamed(VerifiedEvent("WO1"), s1)
                                ELSE Streamed(VerifiedEvent(w2), s2)]
    /\ norm = NoNorm
    /\ life = NoLife
    /\ svc = NoSvc

\* an update that leaves a timestamp already in the item as it is
StoredItem_keepTime(u, old) ==
    [present |-> TRUE, safetyCheckResponse |-> u.safetyCheckResponse,
     safetyCheckPerformedAt |-> IF old.safetyCheckPerformedAt # NoTime
                                THEN old.safetyCheckPerformedAt
                                ELSE u.safetyCheckPerformedAt]

\* the item update_item leaves for update u where the table had old: both
\* attributes are set by the one UpdateExpression
StoredItem(u, old) ==
    [present |-> TRUE, safetyCheckResponse |-> u.safetyCheckResponse,
     safetyCheckPerformedAt |-> u.safetyCheckPerformedAt]

\* current_time = datetime.now().isoformat()
handle_message_stamp(r) ==
    /\ req[r].pc = "persist"
    /\ req' = [req EXCEPT ![r].current_time = now, ![r].pc = "update"]
    /\ UNCHANGED << now, connState, registry, store, cfg, norm, life, svc >>

\* the try block around update_item, run some time after the clock was read
handle_message_update(r) ==
    /\ req[r].pc = "update"
    /\ LET w == req[r].ev.wod IN
       IF cfg.tableConfigured /\ w \in WorkOrderIds
       THEN \E update_ok \in BOOLEAN :
              LET u == [key |-> w,
                        safetyCheckResponse |-> ProcessedResponse(req[r].completion),
                        safetyCheckPerformedAt |-> req[r].current_time,
                        ok |-> update_ok]
              IN  /\ req' = [req EXCEPT ![r].updates = Append(@, u), ![r].pc = "final"]
                  /\ store' = IF update_ok
                              THEN [store EXCEPT ![w] = StoredItem(u, store[w])]
                              ELSE store
       ELSE /\ req' = [req EXCEPT ![r].pc = "final"]
            /\ UNCHANGED store
    /\ UNCHANGED << now, connState, registry, cfg, norm, life, svc >>

NextRace ==
    \/ Tick
    \/ \E r \in Reqs : handle_message_stamp(r)
    \/ \E r \in Reqs : handle_message_update(r)
    \/ \E r \in Reqs : handle_message_final(r)

SpecRace == InitRace /\ [][NextRace]_vars

(* ---------------------------------------------------------------------- *)
(* Specification: one $default invocation among lifecycle events.         *)
(* ---------------------------------------------------------------------- *)

Step(r) ==
    \/ lambda_handler(r)
    \/ verify_token(r)
    \/ handle_message_route(r)
    \/ invoke_bedrock_agent_call(r)
    \/ invoke_bedrock_agent_unit(r)
    \/ invoke_bedrock_agent_raise(r)
    \/ invoke_bedrock_agent_return(r)
    \/ invoke_strands_agent_init(r)
    \/ invoke_strands_agent_call(r)
    \/ invoke_strands_agent_finish(r)
    \/ handle_message_persist(r)
    \/ handle_message_final(r)

Next ==
    \/ Tick
    \/ \E c \in Clients : handle_connect(c)
    \/ \E c \in Clients : TransportClose(c)
    \/ \E c \in Clients : handle_disconnect(c)
    \/ Step("r1")

Spec == Init /\ [][Next]_vars

(* ---------------------------------------------------------------------- *)
(* A request dispatched to the streaming variant while its client may     *)
(* disconnect.                                                            *)
(* ---------------------------------------------------------------------- *)

\* lambda_handler has verified the token of a message of connection c1 that
\* does not ask for the delegating variant, and calls handle_message
InitLive ==
    /\ now = 0
    /\ connState = [c \in ConnIds |-> "open"]
    /\ registry = [c \in ConnIds |-> TTL_SECONDS]
    /\ store = [w \in WorkOrderIds |-> IF w = "WO1" THEN PlainItem ELSE NoItem]
    /\ cfg \in Configs
    /\ \E fw \in FrameworkKinds \ {"StrandsSDK"}, w \in WodKinds :
          req = [r \in Reqs |->
                   IF r = "r1"
                   THEN [IdleReq EXCEPT !.pc = "handle", !.jwks = "ok", !.verifyCalls = 1,
                                        !.ev = [VerifiedEvent(w) EXCEPT !.framework = fw]]
                   ELSE IdleReq]
    /\ norm = NoNorm
    /\ life = NoLife
    /\ svc = NoSvc

\* the steps of handle_message and of invoke_bedrock_agent
Dispatched(r) ==
    \/ handle_message_route(r)
    \/ invoke_bedrock_agent_call(r)
    \/ invoke_bedrock_agent_unit(r)
    \/ invoke_bedrock_agent_raise(r)
    \/ invoke_bedrock_agent_return(r)
    \/ handle_message_persist(r)
    \/ handle_message_final(r)

NextLive ==
    \/ \E c \in Clients : TransportClose(c)
    \/ \E c \in Clients : handle_disconnect(c)
    \/ Dispatched("r1")

\* the handler is not suspended: every call it makes returns, and the
\* backend stream ends
SpecLive == InitLive /\ [][NextLive]_vars /\ WF_vars(Dispatched("r1"))

(* ---------------------------------------------------------------------- *)
(* The invoke_agent call with the retries its client is configured for.   *)
(* ---------------------------------------------------------------------- *)

\* retries={'max_attempts': 5, 'mode': 'standard'}: the retries the client
\* makes after the first attempt
max_attempts == 5

\* what one attempt of invoke_agent gets from the service: a response, an
\* error the standard retry mode sends the request again for (throttling,
\* a 5xx status, a connection error), or any other error
AttemptOutcomes == {"ok", "retryable", "fatal"}

\* invoke_bedrock_agent up to the return of invoke_agent, one step per
\* request the client sends to the backend; backendCalls counts them
invoke_agent_attempt(r) ==
    /\ req[r].pc = "bedrock_start"
    /\ IF ~cfg.bedrockConfigured
       THEN \E oc \in PushOutcomes(req[r].ev.conn) :
               send_to_client(r, BedrockErrorFrame("message", ErrNotConfigured), oc,
                              [req[r] EXCEPT !.completion = ErrNotConfigured,
                                             !.strategy_result = "unconfigured",
                                             !.pc = "persist"])
       ELSE \E out \in AttemptOutcomes :
               LET retries == req[r].backendCalls
                   rq == [req[r] EXCEPT !.backendCalls = @ + 1]
               IN  IF out = "ok"
                   THEN /\ req' = [req EXCEPT ![r] = [rq EXCEPT !.completion = << >>,
                                                                !.pc = "stream"]]
                        /\ UNCHANGED registry
                   ELSE IF out = "retryable" /\ retries < max_attempts
                   THEN /\ req' = [req EXCEPT ![r] = rq]
                        /\ UNCHANGED registry
                   ELSE \E oc \in PushOutcomes(req[r].ev.conn) :
                           send_to_client(r, BedrockErrorFrame("content", ErrBedrock), oc,
                                          BedrockFailure(rq))
    /\ UNCHANGED << now, connState, store, cfg, norm, life, svc >>

NextRetry ==
    \/ \E c \in Clients : TransportClose(c)
    \/ handle_message_route("r1")
    \/ invoke_agent_attempt("r1")
    \/ invoke_bedrock_agent_unit("r1")
    \/ invoke_bedrock_agent_raise("r1")
    \/ invoke_bedrock_agent_return("r1")
    \/ handle_message_persist("r1")
    \/ handle_message_final("r1")

SpecRetry == InitLive /\ [][NextRetry]_vars

(* ---------------------------------------------------------------------- *)
(* A message rejected for its token, then a later message of the same     *)
(* connection.                                                            *)
(* ---------------------------------------------------------------------- *)

\* first messages of connection c1: complete but for the token, which is
\* missing or carries a signature that does not verify
RejectedEvents ==
    {[VerifiedEvent("WO1") EXCEPT !.token = tk] : tk \in {"absent", "bad_signature"}}

InitAgain ==
    /\ now = 0
    /\ connState = [c \in ConnIds |-> "open"]
    /\ registry = [c \in ConnIds |-> TTL_SECONDS]
    /\ store = [w \in WorkOrderIds |-> IF w = "WO1" THEN PlainItem ELSE NoItem]
    /\ cfg \in Configs
    /\ req = [r \in Reqs |-> IdleReq]
    /\ norm = NoNorm
    /\ life = NoLife
    /\ svc = NoSvc

\* lambda_handler is invoked for the first message
FirstMessage == lambda_handler("r1") /\ req'["r1"].ev \in RejectedEvents

\* lambda_handler is invoked for any later message once the first invocation
\* has returned, and runs
LaterMessage == req["r1"].pc = "done" /\ Step("r2")

NextAgain ==
    \/ FirstMessage
    \/ verify_token("r1")
    \/ LaterMessage

SpecAgain == InitAgain /\ [][NextAgain]_vars

(* ---------------------------------------------------------------------- *)
(* The two variants side by side on texts the cleaner would change.       *)
(* ---------------------------------------------------------------------- *)

\* a chunk with a newline inside its <html> block and a brace after it
ChunkNoisy == HtmlOpen \o << NL >> \o HtmlClose \o << "}" >>

\* the streams the streaming invocation has consumed
NoisyStreams ==
    {<< [chunk |-> ChunkNoisy, trace |-> FALSE] >>,
     << [chunk |-> ChunkA, trace |-> FALSE], [chunk |-> ChunkNoisy, trace |-> FALSE] >>}

\* r1 is a streaming invocation for WO1 whose strategy has returned; r2 is a
\* verified StrandsSDK message, for WO2 or without a work order, about to
\* be handled
InitBoth ==
    /\ now = 0
    /\ connState = [c \in ConnIds |-> "open"]
    /\ registry = [c \in ConnIds |-> TTL_SECONDS]
    /\ store = [w \in WorkOrderIds |-> IF w = "WO1" THEN PlainItem ELSE NoItem]
    /\ cfg = [bedrockConfigured |-> TRUE, tableConfigured |-> TRUE]
    /\ \E s \in NoisyStreams, w \in {"absent", "WO2"} :
          req = [r \in Reqs |->
                   IF r = "r1" THEN Streamed(VerifiedEvent("WO1"), s)
                   ELSE [IdleReq EXCEPT !.pc = "handle", !.jwks = "ok", !.verifyCalls = 1,
                                        !.ev = [VerifiedEvent(w) EXCEPT
                                                  !.framework = "StrandsSDK"]]]
    /\ norm = NoNorm
    /\ life = NoLife
    /\ svc = NoSvc

NextBoth ==
    \/ Tick
    \/ \E r \in Reqs : handle_message_route(r)
    \/ \E r \in Reqs : invoke_strands_agent_init(r)
    \/ \E r \in Reqs : invoke_strands_agent_call(r)
    \/ \E r \in Reqs : invoke_strands_agent_finish(r)
    \/ \E r \in Reqs : handle_message_persist(r)
    \/ \E r \in Reqs : handle_message_final(r)

SpecBoth == InitBoth /\ [][NextBoth]_vars

(* ---------------------------------------------------------------------- *)
(* Two invocations on different connections, running concurrently.        *)
(* ---------------------------------------------------------------------- *)

\* r1 handles a verified message of c1 for the streaming variant; r2
\* handles a StrandsSDK message of c2, has sent its first trace frame and
\* has the result of lambda_client.invoke in hand
InitPair ==
    /\ now = 0
    /\ connState = [c \in ConnIds |-> "open"]
    /\ registry = [c \in ConnIds |-> TTL_SECONDS]
    /\ store = [w \in WorkOrderIds |-> IF w = "WO1" THEN PlainItem ELSE NoItem]
    /\ cfg \in Configs
    /\ \E resp \in {x \in StrandsResponses :
                        x.kind = "ok" => x.body.response = "str"} :
          LET e2 == [VerifiedEvent("absent") EXCEPT !.conn = "c2",
                                                    !.framework = "StrandsSDK"]
          IN  req = [r \in Reqs |->
                       IF r = "r1"
                       THEN [IdleReq EXCEPT !.pc = "handle", !.jwks = "ok",
                                            !.verifyCalls = 1,
                                            !.ev = VerifiedEvent("absent")]
                       ELSE [IdleReq EXCEPT !.pc = "strands_parse", !.jwks = "ok",
                                            !.verifyCalls = 1, !.ev = e2,
                                            !.invoked = << "strands" >>,
                                            !.payload = Payload(e2),
                                            !.backendCalls = 1, !.response = resp,
                                            !.pushes = << Envelope(StrandsInitFrame, "c2",
                                                                   IdleReq) >>]]
    /\ norm = NoNorm
    /\ life = NoLife
    /\ svc = NoSvc

NextPair ==
    \/ \E c \in ConnIds : TransportClose(c)
    \/ \E r \in Reqs : Dispatched(r)
    \/ \E r \in Reqs : invoke_strands_agent_finish(r)

SpecPair == InitPair /\ [][NextPair]_vars

(* ---------------------------------------------------------------------- *)
(* A request for a work order that already holds a report.                *)
(* ---------------------------------------------------------------------- *)

\* an earlier request stored a report for WO1 at time 0; lambda_handler has
\* verified the token of a new message for WO1 and calls handle_message
InitStored ==
    /\ now = 0
    /\ connState = [c \in ConnIds |-> "open"]
    /\ registry = [c \in ConnIds |-> TTL_SECONDS]
    /\ store = [w \in WorkOrderIds |->
                  IF w = "WO1"
                  THEN [present |-> TRUE, safetyCheckResponse |-> ChunkA \o ChunkB,
                        safetyCheckPerformedAt |-> 0]
                  ELSE NoItem]
    /\ cfg \in Configs
    /\ \E fw \in FrameworkKinds :
          req = [r \in Reqs |->
                   IF r = "r1"
                   THEN [IdleReq EXCEPT !.pc = "handle", !.jwks = "ok", !.verifyCalls = 1,
                                        !.ev = [VerifiedEvent("WO1") EXCEPT !.framework = fw]]
                   ELSE IdleReq]
    /\ norm = NoNorm
    /\ life = NoLife
    /\ svc = NoSvc

NextStored ==
    \/ Tick
    \/ Dispatched("r1")
    \/ invoke_strands_agent_init("r1")
    \/ invoke_strands_agent_call("r1")
    \/ invoke_strands_agent_finish("r1")

SpecStored == InitStored /\ [][NextStored]_vars

(* ---------------------------------------------------------------------- *)
(* The registry over the life of a connection: lifecycle events, messages *)
(* and the passing of the ttl window.                                     *)
(* ---------------------------------------------------------------------- *)

\* ten minutes pass: the clock reaches the ttl handle_connect computed when
\* it ran at the present reading; nothing in the handler reads an item back
\* or removes one for its ttl
WindowElapses ==
    /\ now <= MaxTime
    /\ now' = now + TTL_SECONDS
    /\ UNCHANGED << connState, registry, store, cfg, req, norm, life, svc >>

\* the messages followed here: a heartbeat, and data messages with a valid
\* token for either variant, with or without a work order
RegistryEvents ==
    {e \in Events :
        /\ e.body = "object" /\ e.domain /\ e.wod \in {"absent", "WO1"}
        /\ IF e.heartbeat
           THEN e.token = "absent" /\ e.framework = "absent" /\ e.wod = "absent"
           ELSE e.token = "valid"}

\* lambda_handler is invoked for one of these messages
RegistryMessage == lambda_handler("r1") /\ req'["r1"].ev \in RegistryEvents

NextReg ==
    \/ WindowElapses
    \/ \E c \in Clients : lambda_handler_connect(c)
    \/ \E c \in Clients : TransportClose(c)
    \/ \E c \in Clients : lambda_handler_disconnect(c)
    \/ RegistryMessage
    \/ verify_token("r1")
    \/ Dispatched("r1")
    \/ invoke_strands_agent_init("r1")
    \/ invoke_strands_agent_call("r1")
    \/ invoke_strands_agent_finish("r1")

SpecReg == InitConn /\ [][NextReg]_vars

TypeOK ==
    /\ now \in 0..(MaxTime + TTL_SECONDS)
    /\ \A r \in Reqs : req[r].pc \in {"idle", "verify", "handle", "bedrock_start", "stream",
                                     "strands_init", "strands_invoke", "strands_parse",
                                     "persist", "update", "final", "done"}

(* ---------------------------------------------------------------------- *)
(* Properties.                                                            *)
(* ---------------------------------------------------------------------- *)

\* the frames of the given types request r has pushed, in push order
FramesOfType(r, types) ==
    SelectSeq(req[r].pushes, LAMBDA f : f.message.type \in types)

\* request r went through handle_message to its return
Processed(r) == req[r].pc = "done" /\ req[r].invoked # << >>

\* the token of r's message is missing
TokenMissing(r) == req[r].pc # "idle" /\ req[r].ev.token \in {"absent", "empty"}

\* verify_token was called for r and raised
VerificationFailed(r) ==
    /\ req[r].jwks # "none"
    /\ req[r].jwks # "ok" \/ req[r].ev.token # "valid"

\* the chunk texts of a stream, in iterator order
ChunksOf(units) ==
    [i \in 1..Len(units) |-> IF units[i].chunk = NoText THEN << >> ELSE units[i].chunk]

\* the positions of the trace-carrying units of a stream, ascending
TraceIdx(units) ==
    SelectSeq([i \in 1..Len(units) |-> i], LAMBDA i : units[i].trace)

\* C1: every processed request has pushed exactly one frame of type final
\* or error, on either backend and on every path of the strategy.
C1_ExactlyOneTerminalFrame ==
    \A r \in Reqs :
        Processed(r) => Len(FramesOfType(r, {"final", "error"})) = 1

\* C2: a delegated request whose invocation succeeded (and so has delivered
\* its final frame) still runs the persistence step, and handle_message
\* pushes no further final frame: the request ends with one final frame.
C2_NoSecondFinalAfterDelegation ==
    \A r \in Reqs :
        (Processed(r) /\ req[r].invoked = << "strands" >> /\ req[r].strategy_result = "ok")
        => /\ req[r].current_time # NoTime
           /\ Len(FramesOfType(r, {"final"})) = 1

\* C3: a message whose token is missing or fails verification (for any
\* reason) reaches no strategy and pushes no trace or final frame.
C3_RejectedNeverInvokes ==
    \A r \in Reqs :
        (TokenMissing(r) \/ VerificationFailed(r))
        => /\ req[r].invoked = << >>
           /\ req[r].backendCalls = 0
           /\ FramesOfType(r, {"trace", "final"}) = << >>

C3_Witness ==
    \E r \in Reqs :
        /\ req[r].pc = "done" /\ req[r].status = 403
        /\ req[r].ev.token = "bad_signature" /\ req[r].jwks = "ok"

\* C4: a heartbeat message, with or without a token, is answered 200 in one
\* step that verifies no token, invokes no strategy, pushes no frame and
\* writes neither the registry nor the work-order store.
C4_HeartbeatOnlyAcknowledged ==
    [][\A r \in Reqs :
         (req[r].pc = "idle" /\ req'[r].pc # "idle"
          /\ req'[r].ev.body = "object" /\ req'[r].ev.heartbeat)
         => /\ req'[r].pc = "done" /\ req'[r].status = 200
            /\ req'[r].verifyCalls = 0 /\ req'[r].invoked = << >>
            /\ req'[r].backendCalls = 0 /\ req'[r].pushes = << >>
            /\ req'[r].updates = << >>
            /\ registry' = registry /\ store' = store]_vars

C4_Witness ==
    \E r \in Reqs :
        /\ req[r].pc = "done" /\ req[r].status = 200
        /\ req[r].ev.heartbeat /\ req[r].ev.token = "absent"
        /\ registry["c1"] # 0

\* C5: for a streaming request with configured identifiers whose iterator
\* completed, the final frame carries the concatenation of the chunk texts
\* in iterator order, and there is one trace frame per trace-carrying unit,
\* in iterator order, each pushed when exactly the units up to its own had
\* been consumed.
C5_StreamingFinalAndTraces ==
    \A r \in Reqs :
        (Processed(r) /\ req[r].invoked = << "bedrock" >>
         /\ cfg.bedrockConfigured /\ req[r].strategy_result = "ok")
        => LET finals == FramesOfType(r, {"final"})
               traces == FramesOfType(r, {"trace"})
               idx == TraceIdx(req[r].units)
           IN  /\ Len(finals) = 1
               /\ finals[1].message.text = Concat(ChunksOf(req[r].units))
               /\ Len(traces) = Len(idx)
               /\ \A k \in 1..Len(idx) :
                     /\ traces[k].message.content = idx[k]
                     /\ traces[k].seen = idx[k]

C5_Witness ==
    \E r \in Reqs :
        /\ Processed(r) /\ req[r].strategy_result = "ok"
        /\ req[r].units = << [chunk |-> ChunkA, trace |-> TRUE],
                             [chunk |-> ChunkB, trace |-> FALSE] >>

\* every item of a content list is a dict with a text field
AllTextItems(items) ==
    \A i \in 1..Len(items) : items[i].kind \in {"text", "text_nonstr"}

\* the text fields of the items of a content list, concatenated in order
TextFields(items) == Concat([i \in 1..Len(items) |-> items[i].text])

\* the priority order content list, message, JSON text for a dict o whose
\* JSON text is given
FollowsPriority(text, o, json) ==
    /\ (o.content = "list" /\ AllTextItems(o.items)) => text = TextFields(o.items)
    /\ (o.content # "list" /\ o.message # NoText) => text = o.message
    /\ (o.content # "list" /\ o.message = NoText) => text = json

PlainDivFragment(t) ==
    /\ MatchAt(t, DivOpen, 1)
    /\ MatchAt(t, DivClose, Len(t) - Len(DivClose) + 1)
    /\ Find(t, HtmlOpen) = 0 /\ Find(t, BodyOpen) = 0

\* C7: a streaming request with work_order_id W whose backend yields only
\* chunks and succeeds pushes exactly one final frame and issues exactly one
\* store update, for key W, with the timestamp of the final frame and, when
\* the text is a plain <div> fragment, with the text of the final frame; a
\* successful update leaves exactly these values in the store.
C7_StreamingPersistsFinal ==
    \A r \in Reqs :
        (Processed(r) /\ req[r].invoked = << "bedrock" >> /\ req[r].strategy_result = "ok"
         /\ req[r].ev.wod \in WorkOrderIds /\ TraceIdx(req[r].units) = << >>)
        => LET finals == FramesOfType(r, {"final"})
               ups == req[r].updates
           IN  /\ Len(finals) = 1
               /\ Len(ups) = 1
               /\ ups[1].key = req[r].ev.wod
               /\ ups[1].safetyCheckPerformedAt = finals[1].message.safetyCheckPerformedAt
               /\ PlainDivFragment(finals[1].message.text)
                     => ups[1].safetyCheckResponse = finals[1].message.text
               /\ ups[1].ok =>
                     /\ store[ups[1].key].safetyCheckResponse = ups[1].safetyCheckResponse
                     /\ store[ups[1].key].safetyCheckPerformedAt = ups[1].safetyCheckPerformedAt

C7_Witness ==
    \E r \in Reqs :
        /\ Processed(r) /\ req[r].strategy_result = "ok"
        /\ req[r].ev.wod = "WO1"
        /\ req[r].units = << [chunk |-> ChunkA, trace |-> FALSE],
                             [chunk |-> ChunkB, trace |-> FALSE] >>
        /\ store["WO1"].safetyCheckResponse = ChunkA \o ChunkB
        /\ now > store["WO1"].safetyCheckPerformedAt

\* C8 as stated: when a push of a request answered "gone", the registry has
\* no entry for the connection once the request has finished, and the
\* handler has returned its normal result.
C8_GoneRemovesEntry ==
    \A r \in Reqs :
        (req[r].pc = "done" /\ req[r].faults \cap {"gone", "gone_delete_failed"} # {})
        => /\ registry[req[r].ev.conn] = 0
           /\ req[r].status = 200

\* C8 amended: when a push of a request answered "gone", the handler still
\* returns its normal result, and the registry has no entry for the
\* connection once the request has finished provided the delete of the
\* entry did not itself fail.
C8_GoneRemovesEntryUnlessDeleteFails ==
    \A r \in Reqs :
        /\ (req[r].pc = "done" /\ req[r].faults \cap {"gone", "gone_delete_failed"} # {})
              => req[r].status = 200
        /\ (req[r].pc = "done" /\ "gone" \in req[r].faults)
              => registry[req[r].ev.conn] = 0

C8_Witness ==
    \E r \in Reqs :
        /\ req[r].pc = "done" /\ req[r].faults = {"gone"}
        /\ Len(req[r].pushes) > 1
        /\ registry[req[r].ev.conn] = 0
        /\ registry["c2"] # 0

\* C9: with the streaming variant's identifiers unset, the backend is never
\* called, the strategy returns the descriptive error text, and exactly one
\* frame of type error is pushed for the request.
C9_UnconfiguredBedrock ==
    \A r \in Reqs :
        (req[r].invoked = << "bedrock" >> /\ ~cfg.bedrockConfigured
         /\ req[r].pc \in {"persist", "final", "done"})
        => /\ req[r].backendCalls = 0
           /\ req[r].completion = ErrNotConfigured
           /\ Len(FramesOfType(r, {"error"})) = 1

C9_Witness ==
    \E r \in Reqs :
        /\ Processed(r) /\ req[r].strategy_result = "unconfigured"
        /\ req[r].pushes[1].message.type = "error"
        /\ req[r].pushes[1].message.text = ErrNotConfigured

\* C10: clean_html_response is idempotent: cleaning a cleaned text again
\* gives the same text.
C10_CleanIdempotent ==
    norm.op = "recleaned" => norm.twice = norm.once

\* the positions where pattern p occurs in t
Occurrences(t, p) == {i \in 1..Len(t) : MatchAt(t, p, i)}

\* t has an opening tag with a closing tag somewhere after it
HasBlock(t, open, close) ==
    \E i \in Occurrences(t, open) : \E j \in Occurrences(t, close) : j >= i + Len(open)

\* b is the block of t that starts at the leftmost opening tag followed by
\* a closing tag and ends with the nearest closing tag after it
IsFirstBlock(b, t, open, close) ==
    \E i \in Occurrences(t, open) : \E j \in Occurrences(t, close) :
        /\ j >= i + Len(open)
        /\ \A i2 \in Occurrences(t, open) :
              (\E j2 \in Occurrences(t, close) : j2 >= i2 + Len(open)) => i <= i2
        /\ \A j2 \in Occurrences(t, close) : j2 >= i + Len(open) => j <= j2
        /\ b = SubSeq(t, i, j + Len(close) - 1)

\* C11: extract_html_content(t) is the first <html>...</html> block of t
\* when there is one (also when a <body> block comes earlier), otherwise the
\* first <body>...</body> block when there is one, otherwise t unchanged.
C11_ExtractFirstBlock ==
    norm.op = "extracted" =>
        IF HasBlock(norm.x, HtmlOpen, HtmlClose)
        THEN IsFirstBlock(norm.once, norm.x, HtmlOpen, HtmlClose)
        ELSE IF HasBlock(norm.x, BodyOpen, BodyClose)
        THEN IsFirstBlock(norm.once, norm.x, BodyOpen, BodyClose)
        ELSE norm.once = norm.x

C11_Witness ==
    /\ norm.op = "extracted"
    /\ norm.x = BodyOpen \o BodyClose \o HtmlOpen \o HtmlClose
    /\ norm.once = HtmlOpen \o HtmlClose

\* the events of the given route handled for connection c, in order
HandledOn(c, route) == SelectSeq(life[c], LAMBDA h : h.route = route)

\* C12 as stated: when handle_connect(c) returns, the registry has an entry
\* for c and its ttl is later than the clock.
C12_ConnectRegisters ==
    \A c \in ConnIds :
        \A k \in 1..Len(life[c]) :
            life[c][k].route = "$connect"
            => life[c][k].after # 0 /\ life[c][k].after > life[c][k].at

\* C12 amended: when handle_connect(c) returns and put_item did not fail,
\* the registry has an entry for c with ttl = clock + 10 minutes, later
\* than the clock.
C12_ConnectRegistersUnlessPutFails ==
    \A c \in ConnIds :
        \A k \in 1..Len(life[c]) :
            (life[c][k].route = "$connect" /\ life[c][k].ok)
            => /\ life[c][k].after = life[c][k].at + TTL_SECONDS
               /\ life[c][k].after > life[c][k].at

C12_Witness ==
    \E c \in ConnIds :
        /\ Len(life[c]) = 1 /\ life[c][1].route = "$connect" /\ life[c][1].ok
        /\ life[c][1].at = 1
        /\ registry[c] = 1 + TTL_SECONDS

\* C13 as stated: when handle_disconnect(c) returns, the registry has no
\* entry for c, whether or not it had one, and a second disconnect leaves
\* the registry as the first did.
C13_DisconnectRemoves ==
    \A c \in ConnIds :
        LET ds == HandledOn(c, "$disconnect") IN
        /\ \A k \in 1..Len(ds) : ds[k].after = 0
        /\ \A k \in 1..(Len(ds) - 1) : ds[k + 1].after = ds[k].after

\* C13 amended: when handle_disconnect(c) returns and delete_item did not
\* fail, the registry has no entry for c, whether or not it had one, and a
\* second disconnect whose delete_item does not fail either leaves the
\* registry as the first did.
C13_DisconnectRemovesUnlessDeleteFails ==
    \A c \in ConnIds :
        LET ds == HandledOn(c, "$disconnect") IN
        /\ \A k \in 1..Len(ds) : ds[k].ok => ds[k].after = 0
        /\ \A k \in 1..(Len(ds) - 1) :
              (ds[k].ok /\ ds[k + 1].ok) => ds[k + 1].after = ds[k].after

C13_Witness ==
    \E c \in ConnIds :
        /\ Len(life[c]) = 3
        /\ life[c][1].route = "$connect" /\ life[c][1].after # 0
        /\ life[c][2].route = "$disconnect" /\ life[c][2].ok
        /\ life[c][3].route = "$disconnect" /\ life[c][3].ok
        /\ registry[c] = 0

\* C14: handle_connect and handle_disconnect return statusCode 200 for
\* every connection, also when put_item or delete_item fails.
C14_LifecycleAlwaysAcknowledged ==
    \A c \in ConnIds :
        \A k \in 1..Len(life[c]) : life[c][k].status = 200

C14_Witness ==
    \E c \in ConnIds :
        /\ Len(life[c]) = 2
        /\ life[c][1].route = "$connect" /\ ~life[c][1].ok
        /\ life[c][2].route = "$disconnect" /\ ~life[c][2].ok
        /\ life[c][2].status = 200

\* C15: lambda_handler returns a status for every event, and when the
\* processing of a data message raises an exception that no inner handler
\* deals with (message.get on a body that is not an object), an error frame
\* is pushed to the originating connection and the status is 500.
C15_ExceptionGivesErrorFrameAnd500 ==
    \A r \in Reqs :
        req[r].pc = "done"
        => /\ req[r].status \in {200, 400, 403, 500}
           /\ req[r].ev.body = "nonobject"
                 => /\ req[r].status = 500
                    /\ \E k \in 1..Len(req[r].pushes) :
                          /\ req[r].pushes[k].message.type = "error"
                          /\ req[r].pushes[k].to = req[r].ev.conn

\* the connection an invocation of the delegated service was given a
\* streaming context for, "none" when its event carries no such context
StreamingContext(e) ==
    IF e.inputText /\ e.enableStreaming /\ e.apiGatewayEndpoint THEN e.connectionId
    ELSE "none"

\* C16: on every thread of the delegated service, whatever earlier
\* invocations on the thread and invocations on other threads stored, each
\* frame send_streaming_update posts during an invocation goes to the
\* connection of that invocation's streaming context, and an invocation
\* without streaming context posts nothing.
C16_TracesOnlyToOwnConnection ==
    \A t \in Threads :
        \A k \in 1..Len(svc[t].sent) :
            /\ StreamingContext(svc[t].ev) # "none"
            /\ svc[t].sent[k].to = StreamingContext(svc[t].ev)

C16_Witness ==
    \E t \in Threads : \E u \in Threads \ {t} :
        /\ svc[t].pc = "agent" /\ svc[t].stale = "c1"
        /\ StreamingContext(svc[t].ev) = "none" /\ svc[t].calls = 2
        /\ svc[u].pc = "agent" /\ StreamingContext(svc[u].ev) = "c2"
        /\ Len(svc[u].sent) = 2

\* r handles a message that is not a heartbeat, has a well-formed body and
\* no token field
NoTokenMessage(r) ==
    /\ req[r].pc # "idle"
    /\ req[r].ev.body = "object" /\ ~req[r].ev.heartbeat /\ req[r].ev.token = "absent"

\* C17 as stated: a non-heartbeat message with a well-formed body and no
\* token field is rejected with 403, whatever else the event holds.
C17_NoTokenRejected403 ==
    \A r \in Reqs :
        NoTokenMessage(r) => req[r].pc = "done" /\ req[r].status = 403

\* C17 amended: such a message is rejected with 403 when the event carries
\* domainName and stage, and with 500 when it does not; in both cases
\* before any token verification, strategy call or frame.
C17_NoTokenRejectedAfterEndpointTest ==
    \A r \in Reqs :
        NoTokenMessage(r)
        => /\ req[r].pc = "done"
           /\ req[r].status = IF req[r].ev.domain THEN 403 ELSE 500
           /\ req[r].verifyCalls = 0 /\ req[r].invoked = << >> /\ req[r].pushes = << >>

C17_Witness ==
    \E r \in Reqs :
        /\ NoTokenMessage(r) /\ req[r].status = 403
        /\ req[r].ev.domain /\ req[r].ev.framework = "StrandsSDK" /\ req[r].ev.wod = "WO1"

\* C18: a $default event whose body is absent, empty or not parseable as
\* JSON ends with status 400, and no frame is pushed, no token verified and
\* no strategy invoked for it.
C18_BadBodyRejected400 ==
    \A r \in Reqs :
        (req[r].pc # "idle" /\ req[r].ev.body \in {"absent", "empty", "malformed"})
        => /\ req[r].pc = "done" /\ req[r].status = 400
           /\ req[r].pushes = << >>
           /\ req[r].verifyCalls = 0 /\ req[r].jwks = "none"
           /\ req[r].invoked = << >> /\ req[r].backendCalls = 0

C18_Witness ==
    \E r \in Reqs :
        /\ req[r].pc = "done" /\ req[r].status = 400
        /\ req[r].ev.body = "malformed" /\ req[r].ev.domain
        /\ connState[req[r].ev.conn] = "open"

\* C19: when the store update of a request fails, the update is attempted
\* once only, the store is left as it was, handle_message returns 200, the
\* last frame is the final frame carrying the text the strategy returned (as
\* after a successful update), and the only error frame is the one the
\* strategy pushed for its own failure, if it failed.
C19_UpdateFailureContained ==
    \A r \in Reqs :
        (Processed(r) /\ req[r].updates # << >> /\ ~req[r].updates[1].ok)
        => LET finals == FramesOfType(r, {"final"})
               last == req[r].pushes[Len(req[r].pushes)]
           IN  /\ Len(req[r].updates) = 1
               /\ store[req[r].updates[1].key] =
                     (IF req[r].updates[1].key = "WO1" THEN PlainItem ELSE NoItem)
               /\ req[r].status = 200
               /\ last.message.type = "final"
               /\ last.message.text = req[r].completion
               /\ last.message.text = (IF req[r].invoked = << "bedrock" >>
                                          /\ req[r].strategy_result = "ok"
                                       THEN Concat(ChunksOf(req[r].units))
                                       ELSE last.message.text)
               /\ Len(FramesOfType(r, {"error"})) =
                     (IF req[r].strategy_result = "ok" THEN 0 ELSE 1)

C19_Witness ==
    \E r \in Reqs :
        /\ Processed(r) /\ req[r].strategy_result = "ok"
        /\ req[r].invoked = << "bedrock" >> /\ Len(req[r].units) = 2
        /\ Len(req[r].updates) = 1 /\ ~req[r].updates[1].ok
        /\ req[r].updates[1].key = "WO1" /\ store["WO1"] = PlainItem

\* C20: a request that reached the routing of handle_message has invoked
\* exactly one variant: the delegating one if and only if its agentFramework
\* field equals "StrandsSDK", the streaming one when the field is absent or
\* has any other value; a request that did not reach it has invoked none.
C20_VariantRouting ==
    \A r \in Reqs :
        /\ Len(req[r].invoked) <= 1
        /\ Processed(r) => Len(req[r].invoked) = 1
        /\ req[r].invoked # << >>
           => /\ req[r].invoked[1] = "strands" <=> req[r].ev.framework = "StrandsSDK"
              /\ req[r].invoked[1] = "bedrock" <=> req[r].ev.framework \in {"absent", "Other"}
        /\ req[r].units # << >> => req[r].invoked = << "bedrock" >>

C20_Witness ==
    \E r \in Reqs :
        /\ Processed(r) /\ req[r].ev.framework = "Other"
        /\ req[r].invoked = << "bedrock" >> /\ req[r].units # << >>

\* the body of r's event is absent, empty or not JSON
ProtocolError(r) == req[r].ev.body \in {"absent", "empty", "malformed"}

\* the strategy of r failed: unconfigured identifiers, an exception of the
\* backend call or of its stream, or an error answer of the delegated service
StrategyFailed(r) == req[r].strategy_result \in {"failed", "unconfigured"}

\* C21 as stated: 400 and 403 are returned only for protocol and
\* authentication errors, and a verified request whose strategy failed ends
\* with an error frame pushed to the client and status 500.
C21_OtherFailuresGive500 ==
    \A r \in Reqs :
        req[r].pc = "done"
        => /\ req[r].status = 400 => ProtocolError(r)
           /\ req[r].status = 403 => (TokenMissing(r) \/ VerificationFailed(r))
           /\ (req[r].invoked # << >> /\ StrategyFailed(r))
                 => /\ FramesOfType(r, {"error"}) # << >>
                    /\ req[r].status = 500

\* C21 amended: 400 and 403 are returned only for protocol and
\* authentication errors; a failure of the chosen strategy is contained: the
\* strategy pushes one error frame and returns the error text, handle_message
\* goes on to push its final frame with that text and returns 200. A verified
\* request never returns 500; 500 is returned only before verification, with
\* no frame pushed.
C21_BackendFailureContained ==
    \A r \in Reqs :
        req[r].pc = "done"
        => /\ req[r].status = 400 => ProtocolError(r)
           /\ req[r].status = 403 => (TokenMissing(r) \/ VerificationFailed(r))
           /\ (req[r].invoked # << >> /\ StrategyFailed(r))
                 => LET n == Len(req[r].pushes) IN
                    /\ Len(FramesOfType(r, {"error"})) = 1
                    /\ n >= 2
                    /\ req[r].pushes[n - 1].message.type = "error"
                    /\ req[r].pushes[n].message.type = "final"
                    /\ req[r].pushes[n].message.text = req[r].pushes[n - 1].message.text
           /\ req[r].invoked # << >> => req[r].status = 200
           /\ req[r].status = 500 => (req[r].verifyCalls = 0 /\ req[r].pushes = << >>)

C21_Witness ==
    \E r \in Reqs :
        /\ Processed(r) /\ req[r].strategy_result = "failed" /\ req[r].status = 200
        /\ req[r].invoked = << "bedrock" >> /\ Len(req[r].units) = 1
        /\ req[r].pushes[Len(req[r].pushes)].message.text = ErrBedrock

\* C22: every frame of type final or error that a request pushes, on every
\* path, carries the fields requestId, status, safetyCheckResponse,
\* safetyCheckPerformedAt and agentFramework.
C22_TerminalFramesComplete ==
    \A r \in Reqs :
        \A k \in 1..Len(req[r].pushes) :
            req[r].pushes[k].message.type \in {"final", "error"}
            => {"requestId", "status", "safetyCheckResponse", "safetyCheckPerformedAt",
                "agentFramework"} \subseteq req[r].pushes[k].message.keys

\* C23: the gateway never creates a work-order record: the store has an
\* entry only for the work order that existed from the start, and an update
\* for an id without entry leaves the store without an entry for that id.
C23_NeverCreatesRecord ==
    /\ \A w \in WorkOrderIds : store[w].present => w = "WO1"
    /\ \A r \in Reqs : \A k \in 1..Len(req[r].updates) :
           req[r].updates[k].key # "WO1" => store[req[r].updates[k].key] = NoItem

\* the (safetyCheckResponse, safetyCheckPerformedAt) pair request r writes
PairOf(r) ==
    [safetyCheckResponse |-> ProcessedResponse(req[r].completion),
     safetyCheckPerformedAt |-> req[r].current_time]

\* the pair the store holds for work order w
StoredPair(w) ==
    [safetyCheckResponse |-> store[w].safetyCheckResponse,
     safetyCheckPerformedAt |-> store[w].safetyCheckPerformedAt]

\* C24: with two requests updating concurrently, every successful update
\* leaves in the record exactly the pair of the request that executed it and
\* no other step changes the store, so after both completed the record holds
\* the pair of the request whose update executed last; for two requests on
\* the same work order the record is never a mix of the two pairs.
C24_LastWriteWins ==
    /\ [][\A r \in Reqs :
             IF req[r].pc = "update" /\ req'[r].pc = "final"
                /\ req'[r].updates # << >> /\ req'[r].updates[1].ok
             THEN /\ StoredPair(req[r].ev.wod)' = PairOf(r)
                  /\ \A w \in WorkOrderIds \ {req[r].ev.wod} : store'[w] = store[w]
             ELSE req'[r] # req[r] => store' = store]_vars
    /\ [](\A w \in WorkOrderIds :
             (/\ \A r \in Reqs : req[r].pc = "done" /\ req[r].ev.wod = w
              /\ \E r \in Reqs : req[r].updates[1].ok)
             => \E r \in Reqs : req[r].updates[1].ok /\ StoredPair(w) = PairOf(r))

C24_Witness ==
    /\ \A r \in Reqs : req[r].pc = "done" /\ req[r].ev.wod = "WO1" /\ req[r].updates[1].ok
    /\ req["r1"].current_time = 0 /\ req["r2"].current_time = 1
    /\ PairOf("r1").safetyCheckResponse # PairOf("r2").safetyCheckResponse
    /\ StoredPair("WO1") = PairOf("r1")

\* C25: a request that was dispatched to the streaming strategy eventually
\* returns 200, whatever the state of the client's connection; and a request
\* during which a push answered "gone" has not been cut short when it
\* returns: it went through the persistence step, attempted its final frame
\* as the last push and returned 200, with every unit the stream yielded in
\* its result.
C25_RunsToCompletion ==
    /\ \A r \in Reqs :
          (req[r].invoked # << >>) ~> (req[r].pc = "done" /\ req[r].status = 200)
    /\ [](\A r \in Reqs :
             (Processed(r) /\ req[r].faults \cap {"gone", "gone_delete_failed"} # {})
             => /\ req[r].status = 200
                /\ req[r].current_time # NoTime
                /\ req[r].ev.wod \in WorkOrderIds => Len(req[r].updates) = 1
                /\ req[r].pushes[Len(req[r].pushes)].message.type = "final"
                /\ (req[r].invoked = << "bedrock" >> /\ req[r].strategy_result = "ok")
                      => req[r].completion = Concat(ChunksOf(req[r].units)))

C25_Witness ==
    \E r \in Reqs :
        /\ req[r].pc = "final" /\ req[r].faults = {"gone"}
        /\ connState[req[r].ev.conn] = "closed"
        /\ req[r].units = << [chunk |-> ChunkA, trace |-> TRUE],
                             [chunk |-> ChunkB, trace |-> FALSE] >>
        /\ Len(req[r].pushes) = 1
        /\ Len(req[r].updates) = 1 /\ req[r].updates[1].ok

\* the step appends a store update to request r
Updates(r) == Len(req'[r].updates) > Len(req[r].updates)

\* C26 as stated: when a request updates the store, it has pushed no final
\* frame before, on either variant.
C26_UpdateBeforeAnyFinal ==
    [][\A r \in Reqs : Updates(r) => FramesOfType(r, {"final"}) = << >>]_vars

\* C26 amended: a request of the streaming variant has pushed no final frame
\* when it updates the store; a request of the delegating variant whose
\* invocation succeeded has already pushed the final frame of
\* invoke_strands_agent, and no other; on both variants the final frame of
\* handle_message is pushed after the update was attempted.
C26_UpdateBeforeDispatcherFinal ==
    [][\A r \in Reqs :
         /\ Updates(r)
            => LET finals == FramesOfType(r, {"final"}) IN
               /\ req[r].invoked = << "bedrock" >> => finals = << >>
               /\ req[r].invoked = << "strands" >>
                     => /\ Len(finals) = (IF req[r].strategy_result = "ok" THEN 1 ELSE 0)
                        /\ \A k \in 1..Len(finals) : finals[k].message = req[r].pushes[2].message
         /\ (req[r].pc = "final" /\ req'[r].pc = "done")
            => /\ req[r].ev.wod \in WorkOrderIds => Len(req[r].updates) = 1
               /\ Len(req'[r].pushes) = Len(req[r].pushes) + 1
               /\ req'[r].pushes[Len(req'[r].pushes)].message.type = "final"]_vars

C26_Witness ==
    \E r \in Reqs :
        /\ req[r].pc = "final" /\ req[r].invoked = << "bedrock" >>
        /\ req[r].strategy_result = "ok"
        /\ Len(req[r].updates) = 1 /\ req[r].updates[1].ok
        /\ store[req[r].ev.wod].safetyCheckResponse = ChunkA \o ChunkB
        /\ FramesOfType(r, {"final"}) = << >>
        /\ FramesOfType(r, {"trace"}) # << >>

\* C27: the final frame handle_message pushes names, in agentFramework, the
\* variant that served the request: "StrandsSDK" for the delegating variant
\* and "BedrockAgent" for the streaming one, whatever the message asked for.
C27_FinalFrameNamesServingVariant ==
    \A r \in Reqs :
        Processed(r)
        => LET last == req[r].pushes[Len(req[r].pushes)].message IN
           /\ last.type = "final"
           /\ last.agentFramework = (IF req[r].invoked = << "strands" >> THEN "StrandsSDK"
                                     ELSE "BedrockAgent")

\* the step is a push of request r that failed with an error other than
\* "gone": no push of r has answered "gone" so far, and either this is the
\* first failure recorded for r or the connection is closed, so that the
\* push cannot have succeeded
FailedPush(r) ==
    /\ Len(req'[r].pushes) = Len(req[r].pushes) + 1
    /\ req'[r].faults = {"failed"}
    /\ req[r].faults = {} \/ connState[req[r].ev.conn] = "closed"

\* C28: a push that fails with an error other than "gone" changes nothing in
\* the registry and lets the handler go on with its next step; a request
\* with such a failure still attempts every later frame, ends with the final
\* frame of handle_message carrying the strategy's result, and returns 200.
C28_OtherPushErrorSwallowed ==
    /\ [][\A r \in Reqs :
             FailedPush(r)
             => /\ registry' = registry
                /\ req'[r].pc \in {"stream", "persist", "strands_invoke", "done"}
                /\ req'[r].pc # req[r].pc \/ req[r].pc = "stream"
                /\ req'[r].pc = "done" => req'[r].status = 200]_vars
    /\ [](\A r \in Reqs :
             (Processed(r) /\ "failed" \in req[r].faults)
             => LET last == req[r].pushes[Len(req[r].pushes)].message IN
                /\ req[r].status = 200
                /\ last.type = "final" /\ last.text = req[r].completion
                /\ (req[r].invoked = << "bedrock" >> /\ req[r].strategy_result = "ok")
                      => /\ req[r].completion = Concat(ChunksOf(req[r].units))
                         /\ Len(req[r].pushes) = Len(TraceIdx(req[r].units)) + 1
                /\ req[r].invoked = << "strands" >> => Len(req[r].pushes) = 3)

C28_Witness ==
    \E r \in Reqs :
        /\ req[r].pc = "final" /\ req[r].faults = {"failed"}
        /\ connState[req[r].ev.conn] = "open"
        /\ registry[req[r].ev.conn] = TTL_SECONDS
        /\ req[r].units = << [chunk |-> ChunkA, trace |-> TRUE],
                             [chunk |-> ChunkB, trace |-> FALSE] >>
        /\ Len(req[r].pushes) = 1
        /\ req[r].completion = ChunkA \o ChunkB

\* C29: within one request nothing is done twice: the key set is fetched at
\* most once, the backend is invoked at most once, the store update is
\* attempted at most once, and each frame is pushed once (one push per trace
\* unit or for the initial trace, one for the strategy's terminal frame, one
\* for the final frame of handle_message), also when an operation fails.
C29_NothingRetried ==
    \A r \in Reqs :
        /\ req[r].verifyCalls <= 1
        /\ req[r].backendCalls <= 1
        /\ Len(req[r].updates) <= 1
        /\ Processed(r)
              => Len(req[r].pushes) =
                    (IF req[r].invoked = << "strands" >> THEN 3
                     ELSE Len(TraceIdx(req[r].units))
                          + (IF req[r].strategy_result = "ok" THEN 1 ELSE 2))

\* the step returns 403 for request r
Rejects(r) == req[r].pc # "done" /\ req'[r].pc = "done" /\ req'[r].status = 403

\* C30: a step that rejects a message with 403 pushes no frame, invokes no
\* strategy and leaves the registry, the work-order store and the
\* connection as they were; a later message of the same connection that
\* carries a valid token is then processed as usual: its frames go to that
\* connection, the store update is attempted and 200 is returned.
C30_RejectionPreservesConnection ==
    /\ [][\A r \in Reqs :
             Rejects(r)
             => /\ req'[r].pushes = << >> /\ req'[r].invoked = << >>
                /\ req'[r].updates = << >>
                /\ registry' = registry /\ store' = store /\ connState' = connState]_vars
    /\ [](\A r \in Reqs : \A l \in Reqs \ {r} :
             (req[r].pc = "done" /\ req[r].status = 403 /\ req[l].pc = "done"
              /\ req[l].ev.conn = req[r].ev.conn /\ TokenAccepted(req[l].ev.token, req[l].jwks))
             => /\ req[l].status = 200
                /\ Len(req[l].invoked) = 1
                /\ req[l].pushes # << >>
                /\ \A k \in 1..Len(req[l].pushes) : req[l].pushes[k].to = req[r].ev.conn
                /\ req[l].ev.wod \in WorkOrderIds => Len(req[l].updates) = 1
                /\ registry[req[r].ev.conn] # 0)

C30_Witness ==
    /\ req["r1"].pc = "done" /\ req["r1"].status = 403
    /\ req["r1"].ev.token = "bad_signature" /\ req["r1"].jwks = "ok"
    /\ Processed("r2") /\ req["r2"].status = 200 /\ req["r2"].faults = {}
    /\ req["r2"].ev.conn = req["r1"].ev.conn
    /\ req["r2"].updates # << >> /\ req["r2"].updates[1].ok
    /\ registry[req["r1"].ev.conn] = TTL_SECONDS


\* the types of the frames request r has pushed, in push order
PushedTypes(r) == [i \in 1..Len(req[r].pushes) |-> req[r].pushes[i].message.type]

\* C31: within one request no trace frame is pushed after a final or error
\* frame of that request, on either variant and on the failure paths.
C31_TracesPrecedeTerminal ==
    \A r \in Reqs :
        \A i \in 1..Len(req[r].pushes) : \A j \in 1..Len(req[r].pushes) :
            (i < j /\ PushedTypes(r)[i] \in {"final", "error"})
            => PushedTypes(r)[j] # "trace"

\* the stream raised after a trace frame was pushed: trace, error, final
C31_Witness ==
    \E r \in Reqs :
        /\ Processed(r) /\ req[r].strategy_result = "failed"
        /\ PushedTypes(r) = << "trace", "error", "final" >>

\* a $connect event for c was handled and its put_item succeeded
ConnectAccepted(c) ==
    \E i \in 1..Len(life[c]) : life[c][i].route = "$connect" /\ life[c][i].ok

\* C32: every connectionId present in the registry was inserted by an
\* earlier handled $connect event for that id, and its entry is unexpired.
C32_PresentMeansConnectedAndUnexpired ==
    \A c \in ConnIds :
        registry[c] # 0 => (ConnectAccepted(c) /\ registry[c] > now)

\* a posted document f has the outbound envelope shape: a message object
\* with type and agentFramework, the target connection as sender, and a
\* string timestamp
EnvelopeShape(f) ==
    /\ {"message", "sender", "timestamp"} \subseteq DOMAIN f
    /\ {"type", "agentFramework"} \subseteq f.message.keys
    /\ f.sender = f.to
    /\ f.timestamp = "str"

\* C33: every frame delivered to a client, pushed by the gateway's
\* send_to_client or directly by the delegated service's
\* send_streaming_update, has the outbound envelope shape.
C33_EveryFrameIsEnveloped ==
    /\ \A r \in Reqs : \A i \in 1..Len(req[r].pushes) : EnvelopeShape(req[r].pushes[i])
    /\ \A t \in Threads : \A i \in 1..Len(svc[t].sent) : EnvelopeShape(svc[t].sent[i])

\* the text the strategy of a successful request r got from its backend:
\* extracted from the delegated result, or accumulated from the stream
BackendText(r) ==
    IF req[r].invoked = << "strands" >> THEN ExtractCompletion(req[r].response.body)
    ELSE AccumulateAll(req[r].units)

\* C34: a successful delegated request with extracted text x sends
\* clean_html_response(x) in its final frames and stores
\* extract_html_content(clean_html_response(x)); a successful streaming
\* request with accumulated text y sends y as it is and stores
\* extract_html_content(y), the cleaner not being applied.
C34_CleanerOnlyOnDelegated ==
    \A r \in Reqs :
        (Processed(r) /\ req[r].strategy_result = "ok")
        => LET sent == IF req[r].invoked = << "strands" >>
                       THEN clean_html_response(BackendText(r))
                       ELSE BackendText(r)
               finals == FramesOfType(r, {"final"})
               w == req[r].ev.wod
           IN  /\ finals # << >>
               /\ \A i \in 1..Len(finals) : finals[i].message.text = sent
               /\ w \in WorkOrderIds
                  => /\ Len(req[r].updates) = 1
                     /\ req[r].updates[1].safetyCheckResponse = extract_html_content(sent)
                     /\ req[r].updates[1].ok
                        => store[w].safetyCheckResponse = extract_html_content(sent)

\* both requests are done and stored; the cleaner would have changed the
\* streamed text and did change the delegated one, and the extractor cut
\* the streamed text down to its <html> block
C34_Witness ==
    /\ \A r \in Reqs : Processed(r) /\ req[r].strategy_result = "ok"
                        /\ req[r].updates # << >> /\ req[r].updates[1].ok
    /\ clean_html_response(BackendText("r1")) # BackendText("r1")
    /\ store["WO1"].safetyCheckResponse = HtmlOpen \o << NL >> \o HtmlClose
    /\ clean_html_response(BackendText("r2")) # BackendText("r2")
    /\ store["WO2"].safetyCheckResponse = clean_html_response(BackendText("r2"))

\* word k occurs in the text t
Mentions(t, k) == \E i \in 1..Len(t) : t[i] = k

\* C35: the payload handed to the chosen strategy is the serialization of
\* the workOrderDetails sub-object alone whenever the body has a
\* workOrderDetails field, and the serialization of the whole body, with the
\* token and every other field, otherwise.
C35_PayloadPrefersWorkOrderDetails ==
    \A r \in Reqs :
        req[r].invoked # << >>
        => LET e == req[r].ev IN
           IF e.wod # "absent"
           THEN /\ req[r].payload = JsonObject(WorkOrderDetails(e))
                /\ ~Mentions(req[r].payload, "token")
                /\ ~Mentions(req[r].payload, "agentFramework")
                /\ ~Mentions(req[r].payload, "workOrderDetails")
           ELSE /\ req[r].payload = JsonObject(BodyMembers(e))
                /\ Mentions(req[r].payload, "token")
                /\ e.framework # "absent" => Mentions(req[r].payload, "agentFramework")

\* a message without workOrderDetails reached a strategy with its token and
\* its agentFramework in the payload
C35_Witness ==
    \E r \in Reqs :
        /\ req[r].invoked # << >> /\ req[r].ev.wod = "absent"
        /\ req[r].payload = << "{", Q, "token", Q, ":", " ", Q, "valid", Q, ",", " ",
                               Q, "agentFramework", Q, ":", " ", Q, "Other", Q, "}" >>

\* C36: handling a message of connection C touches only C: every frame the
\* request pushes is addressed to C with sender C, and a step of the request
\* changes no registry entry but C's, under any interleaving of requests on
\* different connections.
C36_RequestTouchesOnlyItsConnection ==
    /\ [](\A r \in Reqs : \A i \in 1..Len(req[r].pushes) :
             /\ req[r].pushes[i].to = req[r].ev.conn
             /\ req[r].pushes[i].sender = req[r].ev.conn)
    /\ [][\A r \in Reqs :
             req'[r] # req[r]
             => /\ \A c \in ConnIds \ {req[r].ev.conn} : registry'[c] = registry[c]
                /\ \A o \in Reqs \ {r} : req'[o] = req[o]]_vars

\* both requests are done; the one on c1 found its connection gone and
\* de-registered it while the one on c2 delivered its frames and is still
\* registered
C36_Witness ==
    /\ \A r \in Reqs : Processed(r)
    /\ req["r1"].ev.conn = "c1" /\ req["r2"].ev.conn = "c2"
    /\ "gone" \in req["r1"].faults /\ registry["c1"] = 0
    /\ req["r2"].faults = {} /\ Len(req["r2"].pushes) = 3
    /\ registry["c2"] = TTL_SECONDS

\* C37: lambda_handler returns 403 only for a missing token or a failed
\* verify_token; after a successful verification no failure of the backend,
\* of persistence or of delivery gives a 403.
C37_ForbiddenOnlyForToken ==
    \A r \in Reqs :
        /\ (req[r].pc = "done" /\ req[r].status = 403)
           => /\ TokenMissing(r) \/ VerificationFailed(r)
              /\ req[r].invoked = << >>
        /\ (req[r].verifyCalls = 1 /\ TokenAccepted(req[r].ev.token, req[r].jwks))
           => req[r].status # 403

\* a verified request whose backend failed, whose pushes failed and whose
\* update failed has returned
C37_Witness ==
    \E r \in Reqs :
        /\ Processed(r) /\ TokenAccepted(req[r].ev.token, req[r].jwks)
        /\ req[r].strategy_result = "failed"
        /\ req[r].faults # {}
        /\ req[r].updates # << >> /\ ~req[r].updates[1].ok
        /\ req[r].status = 200

\* the error text the strategy of a failed request r builds
ErrorText(r) ==
    IF req[r].strategy_result = "unconfigured" THEN ErrNotConfigured
    ELSE IF req[r].invoked = << "bedrock" >> THEN ErrBedrock
    ELSE IF req[r].response.kind = "status_other" THEN ErrStrandsStatus
    ELSE ErrStrands

\* C38: a strategy that fails (backend exception, delegated result other
\* than 200, unconfigured identifiers) returns its error text as the result;
\* for a request with a work_order_id and a configured store handle_message
\* then issues the update with that text, passed through
\* extract_html_content, and the time it has just read, and a successful
\* update replaces whatever report the work order held.
C38_ErrorTextIsPersisted ==
    \A r \in Reqs :
        (Processed(r) /\ StrategyFailed(r))
        => LET w == req[r].ev.wod
               ups == req[r].updates
           IN  /\ req[r].completion = ErrorText(r)
               /\ (w \in WorkOrderIds /\ cfg.tableConfigured)
                  => /\ Len(ups) = 1
                     /\ ups[1].key = w
                     /\ ups[1].safetyCheckResponse = extract_html_content(ErrorText(r))
                     /\ ups[1].safetyCheckPerformedAt = req[r].current_time
                     /\ req[r].current_time # NoTime
                     /\ ups[1].ok
                        => store[w] = [present |-> TRUE,
                                       safetyCheckResponse |-> ErrorText(r),
                                       safetyCheckPerformedAt |-> req[r].current_time]

\* the report stored at time 0 was replaced at time 1 by the error text of a
\* delegated request whose result was not a 200
C38_Witness ==
    \E r \in Reqs :
        /\ Processed(r) /\ req[r].response.kind = "status_other"
        /\ store["WO1"] = [present |-> TRUE, safetyCheckResponse |-> ErrStrandsStatus,
                           safetyCheckPerformedAt |-> 1]

\* y is empty, or starts with "<" and holds no newline, carriage return or tab
TagLedOneLine(y) ==
    \/ y = << >>
    \/ /\ y[1] = "<"
       /\ \A i \in 1..Len(y) : y[i] \notin {NL, CR, TAB}

\* y is <div>, a non-empty text without "<", and </div>
WrappedInDiv(y) ==
    /\ Len(y) > Len(DivOpen) + Len(DivClose)
    /\ SubSeq(y, 1, Len(DivOpen)) = DivOpen
    /\ SubSeq(y, Len(y) - Len(DivClose) + 1, Len(y)) = DivClose
    /\ \A i \in (Len(DivOpen) + 1)..(Len(y) - Len(DivClose)) : y[i] # "<"

\* C39: for every input x, clean_html_response(x) is the empty string or a
\* text that starts with "<" and holds no newline, carriage return or tab;
\* when the text left after the trimming steps does not start with a tag
\* (x holds no "<" at all and something is left of it), the result is that
\* text wrapped in <div> and </div>.
C39_CleanedIsTagLedOneLine ==
    /\ norm.op \in {"cleaned", "recleaned"}
       => /\ TagLedOneLine(norm.once)
          /\ (Find(norm.x, << "<" >>) = 0 /\ norm.once # << >>)
             => WrappedInDiv(norm.once)
    /\ norm.op = "recleaned" => TagLedOneLine(norm.twice)

\* a tab, a letter and a newline were cleaned to <div>a</div>
C39_Witness ==
    /\ norm.op = "cleaned"
    /\ norm.x = << TAB, "a", NL >>
    /\ norm.once = DivOpen \o << "a" >> \o DivClose

=============================================================================
